---------------------------- MODULE Spec2Model ----------------------------
(***************************************************************************)
(* A model of the sc-memory element storage (sc_storage.c): the segmented  *)
(* element pool, the allocator with its per-thread segment binding and its *)
(* free lists, the graph mutators (node, link and connector creation,      *)
(* cascading erase) and the queries.  Every public operation is one        *)
(* action; its body is the operator that transforms the storage record the *)
(* way the C function does, statement by statement.                        *)
(*                                                                         *)
(* No event subscription exists in these specifications, so sc_event_emit  *)
(* and sc_event_notify_element_deleted find an empty events table and      *)
(* change nothing (sc_event.c:230-250, 272-300).                           *)
(***************************************************************************)
EXTENDS Integers, Sequences, FiniteSets, TLC

\* ------------------------------------------------------------------ bounds
\* Largest max_loaded_segments the model is initialised with.
MaxSegments == 3
\* max_loaded_segments of the runs of Spec (graph operations).
GraphSegments == 2
\* Number of operations of one run of Spec (graph operations).
MaxOps == 5
\* Number of operations of one run of SpecLive (graph operations on live elements).
MaxLiveOps == 7
\* Number of operations before the recycling scenario of SpecRecycle starts.
MaxPrefixOps == 12
\* Largest number N of elements of the recycling scenario.
MaxRecycle == 3
\* Number of operations of one run of SpecContent (graph, content and query operations).
MaxContentOps == 5
\* Number of graph operations of one run of SpecIter before the iterators.
MaxIterOps == 3
\* Number of operations of one run of SpecEvent, and of event objects made in it.
MaxEventOps == 6
MaxEvents == 2
MaxRemoveOps == 5
MaxProcessOps == 10
\* Subscriptions on the element at the start, and calls of the second thread,
\* in the runs of sc_event_notify_element_deleted next to another thread.
MaxSubscriptions == 2
MaxNotifyCalls == 2
MaxWalkOps == 4
MaxRaceOps == 5
MaxChainOps == 6
ChainFull == 255
\* Number of threads that call the storage.
NumThreads == 1
\* Slots of one segment, slot 0 included (the program's value is larger).
SC_SEGMENT_ELEMENTS_COUNT == 3

\* ------------------------------------------------------- program constants
sc_type_node == 1
sc_type_link == 2
sc_type_edge_common == 4
sc_type_arc_common == 8
sc_type_arc_access == 16
sc_type_const == 32
sc_type_var == 64
sc_type_arc_pos == 128
sc_type_arc_perm == 2048
SC_ACCESS_LVL_ELEMENT_EXIST == 1
SC_ACCESS_LVL_REQUEST_DELETION == 2

RECURSIVE BitAnd(_, _)
BitAnd(a, b) ==
  IF a = 0 \/ b = 0 THEN 0
  ELSE (a % 2) * (b % 2) + 2 * BitAnd(a \div 2, b \div 2)

RECURSIVE BitOr(_, _)
BitOr(a, b) ==
  IF a = 0 THEN b
  ELSE IF b = 0 THEN a
  ELSE (IF a % 2 = 1 \/ b % 2 = 1 THEN 1 ELSE 0) + 2 * BitOr(a \div 2, b \div 2)

sc_type_element_mask ==
  sc_type_node + sc_type_link + sc_type_edge_common + sc_type_arc_common + sc_type_arc_access
sc_type_arc_mask == sc_type_arc_access + sc_type_arc_common + sc_type_edge_common
sc_type_arc_pos_const_perm ==
  sc_type_arc_access + sc_type_const + sc_type_arc_pos + sc_type_arc_perm
sc_type_edge_common_const == sc_type_edge_common + sc_type_const

\* Result codes (sc_result).
SC_RESULT_OK == "OK"
SC_RESULT_ERROR == "ERROR"
SC_RESULT_ERROR_INVALID_PARAMS == "ERROR_INVALID_PARAMS"
SC_RESULT_ERROR_ADDR_IS_NOT_VALID == "ERROR_ADDR_IS_NOT_VALID"
SC_RESULT_ERROR_ELEMENT_IS_NOT_CONNECTOR == "ERROR_ELEMENT_IS_NOT_CONNECTOR"
SC_RESULT_ERROR_ELEMENT_IS_NOT_LINK == "ERROR_ELEMENT_IS_NOT_LINK"
SC_RESULT_ERROR_INVALID_TYPE == "ERROR_INVALID_TYPE"
SC_RESULT_ERROR_IO == "ERROR_IO"
SC_RESULT_NO == "NO"

\* Event kinds (sc_event_type).
SC_EVENT_ADD_OUTPUT_ARC == 0
SC_EVENT_ADD_INPUT_ARC == 1
SC_EVENT_REMOVE_OUTPUT_ARC == 2
SC_EVENT_REMOVE_INPUT_ARC == 3
SC_EVENT_REMOVE_ELEMENT == 4
SC_EVENT_CONTENT_CHANGED == 5

\* ----------------------------------------------------------------- values
Threads == 1..NumThreads
Offsets == 0..(SC_SEGMENT_ELEMENTS_COUNT - 1)

MakeAddr(s, o) == [seg |-> s, offset |-> o]
SC_ADDR_EMPTY == MakeAddr(0, 0)
SC_ADDR_IS_EMPTY(a) == a.seg = 0 /\ a.offset = 0
SC_ADDR_IS_NOT_EMPTY(a) == ~SC_ADDR_IS_EMPTY(a)

\* The addresses the operations are called with: every element slot of the
\* segments the storage may hold, the empty address, slot 0 of a segment,
\* offset 1 of segment 0 and a segment number past max_segments_count.
SlotAddrs(n) == {MakeAddr(s, o) : s \in 1..n, o \in Offsets \ {0}}
BadAddrs == {SC_ADDR_EMPTY, MakeAddr(1, 0), MakeAddr(0, 1), MakeAddr(MaxSegments + 1, 1)}
Addrs == SlotAddrs(MaxSegments) \cup BadAddrs
AllSlots == SlotAddrs(MaxSegments)

SeqRange(q) == {q[i] : i \in 1..Len(q)}

\* A zero-filled sc_element.
ZeroElement ==
  [type |-> 0, access_levels |-> 0,
   first_out_arc |-> SC_ADDR_EMPTY, first_in_arc |-> SC_ADDR_EMPTY,
   output_arcs_count |-> 0, input_arcs_count |-> 0,
   begin |-> SC_ADDR_EMPTY, end |-> SC_ADDR_EMPTY,
   next_out_arc |-> SC_ADDR_EMPTY, prev_out_arc |-> SC_ADDR_EMPTY,
   next_in_arc |-> SC_ADDR_EMPTY, prev_in_arc |-> SC_ADDR_EMPTY]

\* A null entry of storage->segments (num = 0 is no segment number).
NullSegment ==
  [num |-> 0, last_engaged_offset |-> 0, last_released_offset |-> 0,
   elements |-> [o \in Offsets |-> ZeroElement]]

\* sc_segment_new(num): a zero-filled segment with its number.
sc_segment_new(num) == [NullSegment EXCEPT !.num = num]

VARIABLES
  storage,   \* struct _sc_storage
  last,      \* the last operation executed: its name, address and result
  steps,     \* number of operations executed so far
  hung,      \* TRUE when an operation entered a loop it never leaves
  scenario,  \* the position of the caller in a prescribed sequence of calls
  events,    \* the event objects, the registration manager's events_table and
             \* the emission manager's queues
  fs_memory, \* the FS-memory collaborator: link key -> the string linked to it
  iterator,  \* the sc_iterator3 the caller holds, null_ptr when it holds none
  running    \* the calls two threads are inside of: the position and the locals
             \* of each, and the memory the calls share

vars == <<storage, last, steps, hung, scenario, events, fs_memory, iterator, running>>

Elem(st, a) == st.segments[a.seg].elements[a.offset]
SetElem(st, a, e) == [st EXCEPT !.segments[a.seg].elements[a.offset] = e]

\* Whether sc_storage_get_element_by_addr leaves a non-null pointer in *el
\* (it stores the slot's address before it tests the existence bit).
PtrNotNull(st, a) ==
  /\ a.seg # 0
  /\ a.offset # 0
  /\ a.seg <= st.max_segments_count
  /\ a.offset <= SC_SEGMENT_ELEMENTS_COUNT
  /\ st.segments[a.seg].num # 0

\* sc_storage_get_element_by_addr(addr, &el) == SC_RESULT_OK
Resolves(st, a) ==
  /\ PtrNotNull(st, a)
  /\ BitAnd(Elem(st, a).access_levels, SC_ACCESS_LVL_ELEMENT_EXIST)
       = SC_ACCESS_LVL_ELEMENT_EXIST

sc_storage_is_element(st, a) == Resolves(st, a)

\* sc_storage_get_element_by_addr as the code computes it for any address.
\* The array of a segment has the slots 0..SC_SEGMENT_ELEMENTS_COUNT - 1; the
\* test of the offset lets SC_SEGMENT_ELEMENTS_COUNT through, and the read of
\* the existence bit is then outside the array: exist_outside is the bit that
\* read finds.
sc_storage_get_element_by_addr(st, addr, exist_outside) ==
  IF addr.seg = 0 \/ addr.offset = 0 \/ addr.seg > st.max_segments_count
     \/ addr.offset > SC_SEGMENT_ELEMENTS_COUNT
  THEN [result |-> SC_RESULT_ERROR_ADDR_IS_NOT_VALID, outside |-> FALSE]
  ELSE IF st.segments[addr.seg].num = 0
  THEN [result |-> SC_RESULT_ERROR_ADDR_IS_NOT_VALID, outside |-> FALSE]
  ELSE IF addr.offset \notin Offsets
  THEN [result |-> IF exist_outside THEN SC_RESULT_OK
                   ELSE SC_RESULT_ERROR_ADDR_IS_NOT_VALID,
        outside |-> TRUE]
  ELSE [result |-> IF BitAnd(Elem(st, addr).access_levels, SC_ACCESS_LVL_ELEMENT_EXIST)
                        = SC_ACCESS_LVL_ELEMENT_EXIST
                   THEN SC_RESULT_OK ELSE SC_RESULT_ERROR_ADDR_IS_NOT_VALID,
        outside |-> FALSE]


\* ------------------------------------------------------------------- events
\* SC_ADDR_LOCAL_TO_INT: the address packed into one integer, the key of the
\* events table and of FS-memory.
SC_ADDR_LOCAL_TO_INT(addr) == addr.seg * 65536 + (addr.offset % 65536)

TABLE_KEY(addr) == SC_ADDR_LOCAL_TO_INT(addr)

\* A function extended or overwritten at one key.
Put(f, k, v) == [x \in DOMAIN f \cup {k} |-> IF x = k THEN v ELSE f[x]]

\* A function without one key.
Drop(f, k) == [x \in DOMAIN f \ {k} |-> f[x]]

\* sc_hash_table_get: <<>> stands for the null list.
sc_hash_table_get(table, key) == IF key \in DOMAIN table THEN table[key] ELSE <<>>

\* No event object, an empty events table, empty queues.
NoEvents ==
  [objects |-> <<>>, events_table |-> <<>>, emission_queue |-> <<>>,
   deletable_events |-> <<>>]

\* _sc_event_registration_manager_add: appends the event to the list of its
\* element.
sc_event_registration_manager_add(ev, event) ==
  [ev EXCEPT !.events_table =
     Put(@, TABLE_KEY(ev.objects[event].element),
         Append(sc_hash_table_get(@, TABLE_KEY(ev.objects[event].element)), event))]

\* sc_event_new: a new event object, registered; event is its handle, 0 for
\* the null pointer.
sc_event_new(ev, el, type) ==
  IF SC_ADDR_IS_EMPTY(el) THEN [ev |-> ev, event |-> 0]
  ELSE [ev |-> sc_event_registration_manager_add(
                 [ev EXCEPT !.objects =
                    Append(@, [element |-> el, type |-> type, ref_count |-> 1])],
                 Len(ev.objects) + 1),
        event |-> Len(ev.objects) + 1]

\* _sc_event_emission_manager_add: one dispatch record at the end of the queue.
sc_event_emission_manager_add(queue, event, edge, other_el) ==
  Append(queue, [event |-> event, edge |-> edge, other_el |-> other_el])

\* The loop of sc_event_emit_impl over the list of the element.
RECURSIVE EmitLoop(_, _, _, _, _, _)
EmitLoop(objects, queue, element_events_list, type, edge, other_el) ==
  IF element_events_list = <<>> THEN queue
  ELSE EmitLoop(objects,
                IF objects[Head(element_events_list)].type = type
                THEN sc_event_emission_manager_add(
                       queue, Head(element_events_list), edge, other_el)
                ELSE queue,
                Tail(element_events_list), type, edge, other_el)

\* sc_event_emit_impl walking the events of every element instead of the list
\* of el.
sc_event_emit_impl_every_element(ev, el, type, edge, other_el) ==
  IF SC_ADDR_IS_EMPTY(el) THEN ev
  ELSE [ev EXCEPT !.emission_queue =
          EmitLoop(ev.objects, @, [i \in 1..Len(ev.objects) |-> i], type, edge, other_el)]

\* sc_event_emit_impl (the calling context is not pending).
sc_event_emit_impl(ev, el, type, edge, other_el) ==
  IF SC_ADDR_IS_EMPTY(el) THEN ev
  ELSE [ev EXCEPT !.emission_queue =
          EmitLoop(ev.objects, @, sc_hash_table_get(ev.events_table, TABLE_KEY(el)),
                   type, edge, other_el)]

\* sc_event_notify_element_deleted: the list of the element leaves the table
\* and its events go on the queue of deletable events.
sc_event_notify_element_deleted(ev, element) ==
  IF TABLE_KEY(element) \in DOMAIN ev.events_table
  THEN [ev EXCEPT !.events_table = Drop(@, TABLE_KEY(element)),
                  !.deletable_events = @ \o ev.events_table[TABLE_KEY(element)]]
  ELSE ev

\* sc_hash_table_list_remove: the list without the first occurrence of data.
RECURSIVE sc_hash_table_list_remove(_, _)
sc_hash_table_list_remove(list, data) ==
  IF list = <<>> THEN <<>>
  ELSE IF Head(list) = data THEN Tail(list)
  ELSE <<Head(list)>> \o sc_hash_table_list_remove(Tail(list), data)

\* _sc_event_registration_manager_remove: the event leaves the list of its
\* element; an element without a list is an error.
sc_event_registration_manager_remove(ev, event) ==
  IF sc_hash_table_get(ev.events_table, TABLE_KEY(ev.objects[event].element)) = <<>>
  THEN [ev |-> ev, result |-> SC_RESULT_ERROR_INVALID_PARAMS]
  ELSE [ev |-> [ev EXCEPT !.events_table =
                  IF sc_hash_table_list_remove(@[TABLE_KEY(ev.objects[event].element)], event) = <<>>
                  THEN Drop(@, TABLE_KEY(ev.objects[event].element))
                  ELSE Put(@, TABLE_KEY(ev.objects[event].element),
                           sc_hash_table_list_remove(
                             @[TABLE_KEY(ev.objects[event].element)], event))],
        result |-> SC_RESULT_OK]

\* The ref_count of an event whose destruction is requested.
SC_EVENT_REQUEST_DESTROY == -1

\* sc_event_destroy: the event is unregistered, cleared, marked and pushed on
\* the queue of deletable events.  delete_callback is the number of times the
\* delete_callback of the event is invoked (every event is made with one).
sc_event_destroy(ev, event) ==
  IF sc_event_registration_manager_remove(ev, event).result # SC_RESULT_OK
  THEN [ev |-> ev, result |-> SC_RESULT_ERROR, delete_callback |-> 0]
  ELSE [ev |-> [sc_event_registration_manager_remove(ev, event).ev EXCEPT
                  !.objects[event] = [element |-> SC_ADDR_EMPTY, type |-> 0,
                                      ref_count |-> SC_EVENT_REQUEST_DESTROY],
                  !.deletable_events = Append(@, event)],
        result |-> SC_RESULT_OK, delete_callback |-> 1]

\* The calls an operation makes to its collaborators, in order.
EmitCall(el, type, edge, other_el) ==
  [call |-> "emit", el |-> el, type |-> type, edge |-> edge, other_el |-> other_el,
   string |-> "", ok |-> TRUE]
DeletedCall(el) ==
  [call |-> "deleted", el |-> el, type |-> 0, edge |-> SC_ADDR_EMPTY,
   other_el |-> SC_ADDR_EMPTY, string |-> "", ok |-> TRUE]
UnlinkCall(el) ==
  [call |-> "unlink", el |-> el, type |-> 0, edge |-> SC_ADDR_EMPTY,
   other_el |-> SC_ADDR_EMPTY, string |-> "", ok |-> TRUE]
\* sc_fs_memory_link_string_ext called with string; ok is whether it reports
\* SC_FS_MEMORY_OK.
LinkCall(el, string, ok) ==
  [call |-> "link", el |-> el, type |-> 0, edge |-> SC_ADDR_EMPTY,
   other_el |-> SC_ADDR_EMPTY, string |-> string, ok |-> ok]
\* sc_fs_memory_get_string_by_link_hash called.
GetStringCall(el, ok) ==
  [call |-> "get_string", el |-> el, type |-> 0, edge |-> SC_ADDR_EMPTY,
   other_el |-> SC_ADDR_EMPTY, string |-> "", ok |-> ok]

\* The event calls of a sequence of calls, applied in order.
RECURSIVE ApplyEventCalls(_, _)
ApplyEventCalls(ev, calls) ==
  IF calls = <<>> THEN ev
  ELSE ApplyEventCalls(
         IF Head(calls).call = "emit"
         THEN sc_event_emit_impl(ev, Head(calls).el, Head(calls).type,
                                 Head(calls).edge, Head(calls).other_el)
         ELSE IF Head(calls).call = "deleted"
         THEN sc_event_notify_element_deleted(ev, Head(calls).el)
         ELSE ev,
         Tail(calls))

\* ---------------------------------------------------------------- FS-memory
\* sc_fs_memory_link_string_ext when it reports SC_FS_MEMORY_OK.
sc_fs_memory_link_string_ext(fs, link_hash, string) == Put(fs, link_hash, string)

\* sc_fs_memory_get_string_by_link_hash when it reports SC_FS_MEMORY_OK: the
\* string linked to the key, the null string ("" after sc_string_empty) when
\* there is none.
sc_fs_memory_get_string_by_link_hash(fs, link_hash) ==
  IF link_hash \in DOMAIN fs THEN fs[link_hash] ELSE ""

\* sc_fs_memory_unlink_string
sc_fs_memory_unlink_string(fs, link_hash) ==
  IF link_hash \in DOMAIN fs THEN Drop(fs, link_hash) ELSE fs

\* The FS-memory calls of a sequence of calls, applied in order.
RECURSIVE ApplyFsCalls(_, _)
ApplyFsCalls(fs, calls) ==
  IF calls = <<>> THEN fs
  ELSE ApplyFsCalls(
         IF Head(calls).call = "unlink"
         THEN sc_fs_memory_unlink_string(fs, SC_ADDR_LOCAL_TO_INT(Head(calls).el))
         ELSE IF Head(calls).call = "link" /\ Head(calls).ok
         THEN sc_fs_memory_link_string_ext(
                fs, SC_ADDR_LOCAL_TO_INT(Head(calls).el), Head(calls).string)
         ELSE fs,
         Tail(calls))

\* ---------------------------------------------------------------- allocator
\* _sc_storage_get_last_not_engaged_segment: pops the not-engaged chain, whose
\* link is slot 0's 8-bit access_levels.
sc_storage_get_last_not_engaged_segment(st) ==
  LET segment_num == st.last_not_engaged_segment_num
      segment == IF segment_num # 0 THEN st.segments[segment_num].num ELSE 0
  IN IF segment # 0
     THEN [st |-> [st EXCEPT
                     !.last_not_engaged_segment_num =
                        st.segments[segment_num].elements[0].access_levels,
                     !.segments[segment_num].elements[0].access_levels = 0],
           segment |-> segment_num]
     ELSE [st |-> st, segment |-> 0]

\* _sc_storage_get_new_segment
sc_storage_get_new_segment(st) ==
  IF st.segments_count = st.max_segments_count
  THEN [st |-> st, segment |-> 0]
  ELSE [st |-> [st EXCEPT
                  !.segments[st.segments_count + 1] = sc_segment_new(st.segments_count + 1),
                  !.segments_count = st.segments_count + 1],
        segment |-> st.segments_count + 1]

\* _sc_storage_get_last_free_segment: the last created segment, unless it is
\* fully engaged.
sc_storage_get_last_free_segment(st) ==
  IF st.segments_count = 0 THEN 0
  ELSE IF st.segments[st.segments_count].last_engaged_offset + 1 = SC_SEGMENT_ELEMENTS_COUNT
       THEN 0
       ELSE st.segments_count

\* A variant of _sc_storage_check_segment_type that does not look at the
\* released slots of the segment.
sc_storage_check_segment_type_ignores_released(st, segment, released) ==
  IF st.segments[segment].last_engaged_offset + 1 = SC_SEGMENT_ELEMENTS_COUNT
  THEN [segment |-> 0, released |-> released]
  ELSE [segment |-> segment, released |-> released]

\* _sc_storage_check_segment_type(&segment, &released)
sc_storage_check_segment_type(st, segment, released) ==
  LET last_released_offset == st.segments[segment].last_released_offset
      last_engaged_offset == st.segments[segment].last_engaged_offset
  IN IF last_released_offset # 0 THEN [segment |-> segment, released |-> TRUE]
     ELSE IF last_engaged_offset + 1 = SC_SEGMENT_ELEMENTS_COUNT
          THEN [segment |-> 0, released |-> released]
          ELSE [segment |-> segment, released |-> released]

\* _sc_storage_get_segment: the segment the calling thread allocates in.
sc_storage_get_segment(st, thread) ==
  LET Recheck(st2, segment, released) ==
        IF segment = 0
        THEN [st |-> st2, segment |-> 0, released |-> released]
        ELSE LET c2 == sc_storage_check_segment_type(st2, segment, released)
             IN [st |-> st2, segment |-> c2.segment, released |-> c2.released]
      Bind(st1, segment, released) ==
        Recheck(IF segment # 0
                THEN [st1 EXCEPT !.processes_segments_table[thread] = segment]
                ELSE st1,
                segment, released)
      LastFree(nw, released) ==
        Bind(nw.st,
             IF nw.segment # 0 THEN nw.segment ELSE sc_storage_get_last_free_segment(nw.st),
             released)
      NewSegment(ne, released) ==
        LastFree(IF ne.segment # 0 THEN ne ELSE sc_storage_get_new_segment(ne.st), released)
      Other(c1) ==
        IF c1.segment # 0
        THEN [st |-> st, segment |-> c1.segment, released |-> c1.released]
        ELSE NewSegment(sc_storage_get_last_not_engaged_segment(st), c1.released)
      bound == st.processes_segments_table[thread]
  IN Other(IF bound # 0 THEN sc_storage_check_segment_type(st, bound, FALSE)
           ELSE [segment |-> 0, released |-> FALSE])

\* _sc_storage_get_element after _sc_storage_get_segment has returned g: the
\* slot taken under the segment's write lock.  element is FALSE for a null
\* pointer.
TakeSlot(g) ==
  IF g.segment = 0
  THEN [st |-> g.st, element |-> FALSE, addr |-> SC_ADDR_EMPTY]
  ELSE IF g.released
  THEN LET element_offset == g.st.segments[g.segment].last_released_offset
       IN [st |-> [g.st EXCEPT
                     !.segments[g.segment].last_released_offset =
                        g.st.segments[g.segment].elements[element_offset].type,
                     !.segments[g.segment].elements[element_offset].type = 0],
           element |-> TRUE,
           addr |-> MakeAddr(g.st.segments[g.segment].num, element_offset)]
  ELSE LET element_offset == g.st.segments[g.segment].last_engaged_offset + 1
       IN [st |-> [g.st EXCEPT
                     !.segments[g.segment].last_engaged_offset = element_offset],
           element |-> TRUE,
           addr |-> MakeAddr(g.st.segments[g.segment].num, element_offset)]

\* _sc_storage_get_element: a slot of the calling thread's segment, a released
\* one first.
sc_storage_get_element(st, thread) == TakeSlot(sc_storage_get_segment(st, thread))

\* _sc_storage_get_released_element: a released slot of any segment on the
\* released chain, whose link is slot 0's type.  fuel bounds the goto loop.
RECURSIVE ReleasedLoop(_, _)
ReleasedLoop(st, fuel) ==
  LET segment_num == st.last_released_segment_num
  IN IF segment_num = 0 \/ segment_num > st.max_segments_count
     THEN [st |-> st, element |-> FALSE, addr |-> MakeAddr(segment_num, 0), hang |-> FALSE]
     ELSE
       LET seg == st.segments[segment_num]
           element_offset == seg.last_released_offset
       IN IF element_offset = 0
          THEN IF fuel = 0
               THEN [st |-> st, element |-> FALSE, addr |-> SC_ADDR_EMPTY, hang |-> TRUE]
               ELSE ReleasedLoop(
                      [st EXCEPT !.last_released_segment_num = seg.elements[0].type,
                                 !.segments[segment_num].elements[0].type = 0],
                      fuel - 1)
          ELSE
            LET st1 == [st EXCEPT
                          !.segments[segment_num].last_released_offset =
                             seg.elements[element_offset].type,
                          !.segments[segment_num].elements[element_offset].type = 0]
                st2 == IF st1.segments[segment_num].last_released_offset = 0
                       THEN [st1 EXCEPT
                               !.last_released_segment_num =
                                  st1.segments[segment_num].elements[0].type,
                               !.segments[segment_num].elements[0].type = 0]
                       ELSE st1
            IN [st |-> st2, element |-> TRUE,
                addr |-> MakeAddr(segment_num, element_offset), hang |-> FALSE]

sc_storage_get_released_element(st) == ReleasedLoop(st, MaxSegments + 1)

\* sc_storage_allocate_new_element after _sc_storage_get_element has returned
\* e1: a released slot of any segment when e1 is null, and the existence bit
\* of the slot found.  addr is what the function leaves in *addr.
AllocateFrom(e1) ==
  LET Engage(e2) ==
        IF e2.element
        THEN [st |-> SetElem(e2.st, e2.addr,
                       [Elem(e2.st, e2.addr) EXCEPT
                          !.access_levels = BitOr(@, SC_ACCESS_LVL_ELEMENT_EXIST)]),
              element |-> TRUE, addr |-> e2.addr, hang |-> FALSE]
        ELSE e2
  IN Engage(IF e1.element
            THEN [st |-> e1.st, element |-> TRUE, addr |-> e1.addr, hang |-> FALSE]
            ELSE sc_storage_get_released_element(e1.st))

\* sc_storage_allocate_new_element
sc_storage_allocate_new_element(st, thread) == AllocateFrom(sc_storage_get_element(st, thread))

\* A variant of sc_storage_free_element that zero-fills the slot and puts it
\* on no free list.
sc_storage_free_element_leaks_slot(st, addr) ==
  IF ~Resolves(st, addr) THEN [st |-> st, result |-> SC_RESULT_ERROR_ADDR_IS_NOT_VALID]
  ELSE [st |-> [st EXCEPT !.segments[addr.seg].elements[addr.offset] = ZeroElement],
        result |-> SC_RESULT_OK]

\* A variant of sc_storage_free_element that clears only the flags of the
\* slot and keeps the rest of the element.
sc_storage_free_element_keeps_fields(st, addr) ==
  IF ~Resolves(st, addr) THEN [st |-> st, result |-> SC_RESULT_ERROR_ADDR_IS_NOT_VALID]
  ELSE
    LET last_released_offset == st.segments[addr.seg].last_released_offset
        st1 == [st EXCEPT
                  !.segments[addr.seg].elements[addr.offset] =
                     [@ EXCEPT !.type = last_released_offset, !.access_levels = 0],
                  !.segments[addr.seg].last_released_offset = addr.offset]
        st2 == IF last_released_offset = 0
               THEN [st1 EXCEPT
                       !.segments[addr.seg].elements[0].type = st.last_released_segment_num,
                       !.last_released_segment_num = st.segments[addr.seg].num]
               ELSE st1
    IN [st |-> st2, result |-> SC_RESULT_OK]

\* A variant of sc_storage_free_element that leaves the access levels of the
\* slot as they were.
sc_storage_free_element_keeps_flags(st, addr) ==
  IF ~Resolves(st, addr) THEN [st |-> st, result |-> SC_RESULT_ERROR_ADDR_IS_NOT_VALID]
  ELSE
    LET last_released_offset == st.segments[addr.seg].last_released_offset
        st1 == [st EXCEPT
                  !.segments[addr.seg].elements[addr.offset] =
                     [ZeroElement EXCEPT !.type = last_released_offset,
                                         !.access_levels = Elem(st, addr).access_levels],
                  !.segments[addr.seg].last_released_offset = addr.offset]
        st2 == IF last_released_offset = 0
               THEN [st1 EXCEPT
                       !.segments[addr.seg].elements[0].type = st.last_released_segment_num,
                       !.last_released_segment_num = st.segments[addr.seg].num]
               ELSE st1
    IN [st |-> st2, result |-> SC_RESULT_OK]

\* sc_storage_free_element: pushes the slot on its segment's free list, and
\* the segment on the released chain when its free list was empty.
sc_storage_free_element(st, addr) ==
  IF ~Resolves(st, addr) THEN [st |-> st, result |-> SC_RESULT_ERROR_ADDR_IS_NOT_VALID]
  ELSE
    LET last_released_offset == st.segments[addr.seg].last_released_offset
        st1 == [st EXCEPT
                  !.segments[addr.seg].elements[addr.offset] =
                     [ZeroElement EXCEPT !.type = last_released_offset],
                  !.segments[addr.seg].last_released_offset = addr.offset]
        st2 == IF last_released_offset = 0
               THEN [st1 EXCEPT
                       !.segments[addr.seg].elements[0].type = st.last_released_segment_num,
                       !.last_released_segment_num = st.segments[addr.seg].num]
               ELSE st1
    IN [st |-> st2, result |-> SC_RESULT_OK]

\* sc_storage_start_new_process
sc_storage_start_new_process(st, thread) ==
  [st EXCEPT !.processes_segments_table[thread] = 0]

\* sc_storage_end_new_process: a segment that is not exhausted goes on the
\* not-engaged chain; the link is stored in the 8-bit access_levels of slot 0.
sc_storage_end_new_process(st, thread) ==
  LET segment == st.processes_segments_table[thread]
      st1 == IF segment # 0 /\
                (st.segments[segment].last_engaged_offset + 1 # SC_SEGMENT_ELEMENTS_COUNT
                 \/ st.segments[segment].last_released_offset # 0)
             THEN [st EXCEPT
                     !.segments[segment].elements[0].access_levels =
                        st.last_not_engaged_segment_num % 256,
                     !.last_not_engaged_segment_num = st.segments[segment].num]
             ELSE st
  IN [st1 EXCEPT !.processes_segments_table[thread] = 0]


\* ------------------------------------------------------------ graph mutators
SetField(st, a, f, v) == [st EXCEPT !.segments[a.seg].elements[a.offset][f] = v]

\* Unsigned 32-bit increment and decrement of the arc counters.  A counter
\* value v >= 2^31 is written v - 2^32 (0 - 1 wraps to 2^32 - 1, written -1),
\* so the arithmetic modulo 2^32 is the integers' near zero.
Inc32(x) == x + 1
Dec32(x) == x - 1

\* sc_storage_node_new after sc_storage_allocate_new_element has returned a:
\* addr is the address returned.
NodeFrom(a, type) ==
  IF a.element
  THEN [st |-> SetField(a.st, a.addr, "type", BitOr(sc_type_node, type)),
        addr |-> a.addr, hang |-> FALSE, emits |-> <<>>]
  ELSE [st |-> a.st, addr |-> a.addr, hang |-> a.hang, emits |-> <<>>]

\* sc_storage_node_new
sc_storage_node_new(st, thread, type) ==
  NodeFrom(sc_storage_allocate_new_element(st, thread), type)

\* sc_storage_link_new
sc_storage_link_new(st, thread, type) ==
  LET Typed(a) ==
        IF a.element
        THEN [st |-> SetField(a.st, a.addr, "type", BitOr(sc_type_link, type)),
              addr |-> a.addr, hang |-> FALSE, emits |-> <<>>]
        ELSE [st |-> a.st, addr |-> a.addr, hang |-> a.hang, emits |-> <<>>]
  IN Typed(sc_storage_allocate_new_element(st, thread))

\* A variant of _sc_storage_make_elements_incident_to_arc that leaves
\* input_arcs_count of the end element as it is.
sc_storage_make_elements_incident_to_arc_no_input_count(st, arc_addr, beg_addr, end_addr) ==
  LET first_out_arc == Elem(st, beg_addr).first_out_arc
      first_in_arc == Elem(st, end_addr).first_in_arc
      Count(s6) ==
        SetField(s6, beg_addr, "output_arcs_count", Inc32(Elem(s6, beg_addr).output_arcs_count))
  IN Count(SetField(SetField(SetField(SetField(st,
             arc_addr, "next_out_arc", first_out_arc),
             arc_addr, "next_in_arc", first_in_arc),
             beg_addr, "first_out_arc", arc_addr),
             end_addr, "first_in_arc", arc_addr))

\* _sc_storage_make_elements_incident_to_arc: puts the connector at the head
\* of beg's output list and of end's input list.
sc_storage_make_elements_incident_to_arc(st, arc_addr, beg_addr, end_addr) ==
  LET first_out_arc == Elem(st, beg_addr).first_out_arc
      first_in_arc == Elem(st, end_addr).first_in_arc
      f_out_arc == SC_ADDR_IS_NOT_EMPTY(first_out_arc) /\ PtrNotNull(st, first_out_arc)
      f_in_arc == SC_ADDR_IS_NOT_EMPTY(first_in_arc) /\ PtrNotNull(st, first_in_arc)
      CountIn(s7) ==
        SetField(s7, end_addr, "input_arcs_count", Inc32(Elem(s7, end_addr).input_arcs_count))
      CountOut(s6) ==
        CountIn(SetField(s6, beg_addr, "output_arcs_count",
                         Inc32(Elem(s6, beg_addr).output_arcs_count)))
      Heads(s4) ==
        CountOut(SetField(SetField(s4, beg_addr, "first_out_arc", arc_addr),
                          end_addr, "first_in_arc", arc_addr))
      PrevIn(s3) ==
        Heads(IF f_in_arc THEN SetField(s3, first_in_arc, "prev_in_arc", arc_addr) ELSE s3)
      PrevOut(s2) ==
        PrevIn(IF f_out_arc THEN SetField(s2, first_out_arc, "prev_out_arc", arc_addr) ELSE s2)
  IN PrevOut(SetField(SetField(st, arc_addr, "next_out_arc", first_out_arc),
                      arc_addr, "next_in_arc", first_in_arc))

\* sc_storage_arc_new without the two events of the reversed direction.
sc_storage_arc_new_two_events(st, thread, type, beg_addr, end_addr) ==
  LET is_edge == BitAnd(type, sc_type_edge_common) = sc_type_edge_common
      is_not_loop == beg_addr # end_addr
      Second(s4, arc_addr) ==
        [st |-> IF is_edge /\ is_not_loop
                THEN sc_storage_make_elements_incident_to_arc(s4, arc_addr, end_addr, beg_addr)
                ELSE s4,
         addr |-> arc_addr, hang |-> FALSE,
         emits |->
           <<EmitCall(beg_addr, SC_EVENT_ADD_OUTPUT_ARC, arc_addr, end_addr),
             EmitCall(end_addr, SC_EVENT_ADD_INPUT_ARC, arc_addr, beg_addr)>>
           \o <<>>]
      Incident(s3, arc_addr) ==
        IF ~Resolves(s3, beg_addr) \/ ~Resolves(s3, end_addr)
        THEN [st |-> sc_storage_free_element(s3, arc_addr).st,
              addr |-> SC_ADDR_EMPTY, hang |-> FALSE, emits |-> <<>>]
        ELSE Second(sc_storage_make_elements_incident_to_arc(s3, arc_addr, beg_addr, end_addr),
                    arc_addr)
      Filled(a) ==
        IF ~a.element
        THEN [st |-> a.st, addr |-> a.addr, hang |-> a.hang, emits |-> <<>>]
        ELSE Incident(SetField(SetField(SetField(a.st,
                        a.addr, "type", type),
                        a.addr, "begin", beg_addr),
                        a.addr, "end", end_addr),
                      a.addr)
  IN IF SC_ADDR_IS_EMPTY(beg_addr) \/ SC_ADDR_IS_EMPTY(end_addr)
     THEN [st |-> st, addr |-> SC_ADDR_EMPTY, hang |-> FALSE, emits |-> <<>>]
     ELSE Filled(sc_storage_allocate_new_element(st, thread))

\* sc_storage_arc_new: addr is the address returned.
sc_storage_arc_new(st, thread, type, beg_addr, end_addr) ==
  LET is_edge == BitAnd(type, sc_type_edge_common) = sc_type_edge_common
      is_not_loop == beg_addr # end_addr
      Second(s4, arc_addr) ==
        [st |-> IF is_edge /\ is_not_loop
                THEN sc_storage_make_elements_incident_to_arc(s4, arc_addr, end_addr, beg_addr)
                ELSE s4,
         addr |-> arc_addr, hang |-> FALSE,
         emits |->
           <<EmitCall(beg_addr, SC_EVENT_ADD_OUTPUT_ARC, arc_addr, end_addr),
             EmitCall(end_addr, SC_EVENT_ADD_INPUT_ARC, arc_addr, beg_addr)>>
           \o IF is_edge /\ is_not_loop
              THEN <<EmitCall(end_addr, SC_EVENT_ADD_OUTPUT_ARC, arc_addr, beg_addr),
                     EmitCall(beg_addr, SC_EVENT_ADD_INPUT_ARC, arc_addr, end_addr)>>
              ELSE <<>>]
      Incident(s3, arc_addr) ==
        IF ~Resolves(s3, beg_addr) \/ ~Resolves(s3, end_addr)
        THEN [st |-> sc_storage_free_element(s3, arc_addr).st,
              addr |-> SC_ADDR_EMPTY, hang |-> FALSE, emits |-> <<>>]
        ELSE Second(sc_storage_make_elements_incident_to_arc(s3, arc_addr, beg_addr, end_addr),
                    arc_addr)
      Filled(a) ==
        IF ~a.element
        THEN [st |-> a.st, addr |-> a.addr, hang |-> a.hang, emits |-> <<>>]
        ELSE Incident(SetField(SetField(SetField(a.st,
                        a.addr, "type", type),
                        a.addr, "begin", beg_addr),
                        a.addr, "end", end_addr),
                      a.addr)
  IN IF SC_ADDR_IS_EMPTY(beg_addr) \/ SC_ADDR_IS_EMPTY(end_addr)
     THEN [st |-> st, addr |-> SC_ADDR_EMPTY, hang |-> FALSE, emits |-> <<>>]
     ELSE Filled(sc_storage_allocate_new_element(st, thread))

\* -------------------------------------------------------------------- erase
\* More steps than one chain without a cycle can have.
ChainFuel == MaxSegments * SC_SEGMENT_ELEMENTS_COUNT + 1

NextOf(el, side) == IF side = "out" THEN el.next_out_arc ELSE el.next_in_arc

\* One chain walk of the collection phase (sc_storage.c:488-506, 508-526):
\* every address not yet in cache_table is resolved, cached and pushed on both
\* queues; a cached one is only stepped over.  hang is TRUE when the walk
\* never reaches the empty address.
RECURSIVE WalkChain(_, _, _, _, _)
WalkChain(st, addr, side, q, fuel) ==
  IF SC_ADDR_IS_EMPTY(addr) THEN q
  ELSE IF fuel = 0 THEN [q EXCEPT !.hang = TRUE]
  ELSE IF addr \in q.cache
       THEN WalkChain(st, NextOf(Elem(st, addr), side), side, q, fuel - 1)
       ELSE IF ~Resolves(st, addr) THEN q
       ELSE WalkChain(st, NextOf(Elem(st, addr), side), side,
                      [q EXCEPT !.cache = @ \cup {addr},
                                !.remove_queue = Append(@, addr),
                                !.iter_queue = Append(@, addr)],
                      fuel - 1)

\* The collection phase: the loop over iter_queue.
RECURSIVE CollectLoop(_, _)
CollectLoop(st, q) ==
  IF q.hang \/ q.iter_queue = <<>> THEN q
  ELSE
    LET addr == Head(q.iter_queue)
        q0 == [q EXCEPT !.iter_queue = Tail(@)]
    IN IF ~Resolves(st, addr) THEN CollectLoop(st, q0)
       ELSE
         LET q1 == WalkChain(st, Elem(st, addr).first_out_arc, "out", q0, ChainFuel)
             q2 == IF q1.hang THEN q1
                   ELSE WalkChain(st, Elem(st, addr).first_in_arc, "in", q1, ChainFuel)
         IN CollectLoop(st, q2)

Collect(st, addr) ==
  CollectLoop(st, [iter_queue |-> <<addr>>, remove_queue |-> <<addr>>,
                   cache |-> {}, hang |-> FALSE])

\* The unlinking of one connector from the lists of its endpoints
\* (sc_storage.c:559-673), in the order of the statements.
UnlinkConnector(st, addr) ==
  LET element == Elem(st, addr)
      is_edge == BitAnd(element.type, sc_type_edge_common) # 0
      begin_addr == element.begin
      end_addr == element.end
      is_not_loop == begin_addr # end_addr
      prev_out_arc == element.prev_out_arc
      next_out_arc == element.next_out_arc
      prev_in_arc == element.prev_in_arc
      next_in_arc == element.next_in_arc
      \* the other side of an edge, at el: its first arc of that side and counter
      OtherSide(s, el, first, next, count) ==
        IF is_edge /\ is_not_loop
        THEN SetField(IF addr = Elem(s, el)[first] THEN SetField(s, el, first, next) ELSE s,
                      el, count, Dec32(Elem(s, el)[count]))
        ELSE s
      OwnSide(s, el, first, next, count) ==
        SetField(IF addr = Elem(s, el)[first] THEN SetField(s, el, first, next) ELSE s,
                 el, count, Dec32(Elem(s, el)[count]))
      End(s5) ==
        IF Resolves(s5, end_addr)
        THEN OtherSide(OwnSide(s5, end_addr, "first_in_arc", next_in_arc, "input_arcs_count"),
                       end_addr, "first_out_arc", next_out_arc, "output_arcs_count")
        ELSE s5
      NextIn(s4) ==
        End(IF SC_ADDR_IS_NOT_EMPTY(next_in_arc) /\ Resolves(s4, next_in_arc)
            THEN SetField(s4, next_in_arc, "prev_in_arc", prev_in_arc) ELSE s4)
      PrevIn(s3) ==
        NextIn(IF SC_ADDR_IS_NOT_EMPTY(prev_in_arc) /\ Resolves(s3, prev_in_arc)
               THEN SetField(s3, prev_in_arc, "next_in_arc", next_in_arc) ELSE s3)
      Begin(s2) ==
        PrevIn(IF Resolves(s2, begin_addr)
               THEN OtherSide(
                      OwnSide(s2, begin_addr, "first_out_arc", next_out_arc, "output_arcs_count"),
                      begin_addr, "first_in_arc", next_in_arc, "input_arcs_count")
               ELSE s2)
      NextOut(s1) ==
        Begin(IF SC_ADDR_IS_NOT_EMPTY(next_out_arc) /\ Resolves(s1, next_out_arc)
              THEN SetField(s1, next_out_arc, "prev_out_arc", prev_out_arc) ELSE s1)
  IN NextOut(IF SC_ADDR_IS_NOT_EMPTY(prev_out_arc) /\ Resolves(st, prev_out_arc)
             THEN SetField(st, prev_out_arc, "next_out_arc", next_out_arc) ELSE st)

\* One round of the removal loop that retires the subscriptions of the element
\* before it emits REMOVE_ELEMENT.
RemoveOne_notify_first(st, addr) ==
  LET Freed(s2, calls) ==
        [st |-> sc_storage_free_element(s2, addr).st,
         calls |-> calls \o
                   <<DeletedCall(addr),
                     EmitCall(addr, SC_EVENT_REMOVE_ELEMENT, SC_ADDR_EMPTY, SC_ADDR_EMPTY)>>]
      Requested(s1, element) ==
        IF BitAnd(element.type, sc_type_link) # 0
        THEN Freed(s1, <<UnlinkCall(addr)>>)
        ELSE IF BitAnd(element.type, sc_type_arc_mask) # 0
        THEN Freed(UnlinkConnector(s1, addr),
                   <<EmitCall(element.begin, SC_EVENT_REMOVE_OUTPUT_ARC, addr, element.end),
                     EmitCall(element.end, SC_EVENT_REMOVE_INPUT_ARC, addr, element.begin)>>)
        ELSE Freed(s1, <<>>)
  IN IF ~Resolves(st, addr)
        \/ BitAnd(Elem(st, addr).access_levels, SC_ACCESS_LVL_REQUEST_DELETION)
             = SC_ACCESS_LVL_REQUEST_DELETION
     THEN [st |-> st, calls |-> <<>>]
     ELSE Requested(SetField(st, addr, "access_levels",
                             BitOr(Elem(st, addr).access_levels,
                                   SC_ACCESS_LVL_REQUEST_DELETION)),
                    Elem(st, addr))

\* The head of one round of the removal loop (sc_storage.c:536-554): an
\* address that resolves and is not requested for deletion gets the
\* REQUEST_DELETION bit; type is the type read with it.
MarkOne(st, addr) ==
  IF ~Resolves(st, addr)
     \/ BitAnd(Elem(st, addr).access_levels, SC_ACCESS_LVL_REQUEST_DELETION)
          = SC_ACCESS_LVL_REQUEST_DELETION
  THEN [st |-> st, marked |-> FALSE, type |-> 0]
  ELSE [st |-> SetField(st, addr, "access_levels",
                        BitOr(Elem(st, addr).access_levels, SC_ACCESS_LVL_REQUEST_DELETION)),
        marked |-> TRUE, type |-> Elem(st, addr).type]

\* The rest of the round (sc_storage.c:556-682) for an address whose slot was
\* marked and had type.
FinishOne(st, addr, type) ==
  LET Freed(s2, calls) ==
        [st |-> sc_storage_free_element(s2, addr).st,
         calls |-> calls \o
                   <<EmitCall(addr, SC_EVENT_REMOVE_ELEMENT, SC_ADDR_EMPTY, SC_ADDR_EMPTY),
                     DeletedCall(addr)>>]
  IN IF BitAnd(type, sc_type_link) # 0
     THEN Freed(st, <<UnlinkCall(addr)>>)
     ELSE IF BitAnd(type, sc_type_arc_mask) # 0
     THEN Freed(UnlinkConnector(st, addr),
                <<EmitCall(Elem(st, addr).begin, SC_EVENT_REMOVE_OUTPUT_ARC, addr,
                           Elem(st, addr).end),
                  EmitCall(Elem(st, addr).end, SC_EVENT_REMOVE_INPUT_ARC, addr,
                           Elem(st, addr).begin)>>)
     ELSE Freed(st, <<>>)

\* One round of the removal loop (sc_storage.c:536-682) for one address.
RemoveOne(st, addr) ==
  LET Marked(k) ==
        IF k.marked THEN FinishOne(k.st, addr, k.type) ELSE [st |-> st, calls |-> <<>>]
  IN Marked(MarkOne(st, addr))

\* The removal loop: the storage it leaves and the calls it made.
RECURSIVE RemoveLoop(_, _, _)
RemoveLoop(st, remove_queue, calls) ==
  LET Round(r) == RemoveLoop(r.st, Tail(remove_queue), calls \o r.calls)
  IN IF remove_queue = <<>> THEN [st |-> st, calls |-> calls]
     ELSE Round(RemoveOne(st, Head(remove_queue)))

\* sc_storage_element_free: the cascading erase.
sc_storage_element_free(st, addr) ==
  LET Removed(r) ==
        [st |-> r.st, result |-> SC_RESULT_OK, hang |-> FALSE, calls |-> r.calls]
      Collected(q) ==
        IF q.hang THEN [st |-> st, result |-> SC_RESULT_OK, hang |-> TRUE, calls |-> <<>>]
        ELSE Removed(RemoveLoop(st, q.remove_queue, <<>>))
  IN IF ~Resolves(st, addr)
     THEN [st |-> st, result |-> SC_RESULT_ERROR_ADDR_IS_NOT_VALID, hang |-> FALSE,
           calls |-> <<>>]
     ELSE Collected(Collect(st, addr))

\* ------------------------------------------------------------------ queries
\* sc_storage_get_element_output_arcs_count
sc_storage_get_element_output_arcs_count(st, addr) ==
  IF Resolves(st, addr) THEN Elem(st, addr).output_arcs_count ELSE 0

\* sc_storage_get_element_input_arcs_count
sc_storage_get_element_input_arcs_count(st, addr) ==
  IF Resolves(st, addr) THEN Elem(st, addr).input_arcs_count ELSE 0

\* sc_storage_get_element_type
sc_storage_get_element_type(st, addr) ==
  IF Resolves(st, addr)
  THEN [result |-> SC_RESULT_OK, type |-> Elem(st, addr).type]
  ELSE [result |-> SC_RESULT_ERROR_ADDR_IS_NOT_VALID, type |-> 0]

\* sc_storage_get_arc_begin
sc_storage_get_arc_begin(st, addr) ==
  IF ~Resolves(st, addr)
  THEN [result |-> SC_RESULT_ERROR_ADDR_IS_NOT_VALID, addr |-> SC_ADDR_EMPTY]
  ELSE IF BitAnd(Elem(st, addr).type, sc_type_arc_mask) = 0
  THEN [result |-> SC_RESULT_ERROR_ELEMENT_IS_NOT_CONNECTOR, addr |-> SC_ADDR_EMPTY]
  ELSE [result |-> SC_RESULT_OK, addr |-> Elem(st, addr).begin]

\* sc_storage_get_arc_end
sc_storage_get_arc_end(st, addr) ==
  IF ~Resolves(st, addr)
  THEN [result |-> SC_RESULT_ERROR_ADDR_IS_NOT_VALID, addr |-> SC_ADDR_EMPTY]
  ELSE IF BitAnd(Elem(st, addr).type, sc_type_arc_mask) = 0
  THEN [result |-> SC_RESULT_ERROR_ELEMENT_IS_NOT_CONNECTOR, addr |-> SC_ADDR_EMPTY]
  ELSE [result |-> SC_RESULT_OK, addr |-> Elem(st, addr).end]

\* A variant of sc_storage_change_element_subtype that does not compare the
\* element kinds.
sc_storage_change_element_subtype_any_kind(st, addr, type) ==
  IF ~Resolves(st, addr)
  THEN [st |-> st, result |-> SC_RESULT_ERROR_ADDR_IS_NOT_VALID]
  ELSE [st |-> SetField(st, addr, "type", type), result |-> SC_RESULT_OK]

\* sc_storage_change_element_subtype
sc_storage_change_element_subtype(st, addr, type) ==
  IF ~Resolves(st, addr)
  THEN [st |-> st, result |-> SC_RESULT_ERROR_ADDR_IS_NOT_VALID]
  ELSE IF BitAnd(Elem(st, addr).type, sc_type_element_mask)
            # BitAnd(type, sc_type_element_mask)
  THEN [st |-> st, result |-> SC_RESULT_ERROR_INVALID_PARAMS]
  ELSE [st |-> SetField(st, addr, "type", type), result |-> SC_RESULT_OK]

\* The result of sc_storage_set_link_content and of sc_storage_get_link_content
\* for an address that does not resolve: both leave before they call FS-memory
\* (sc_storage.c:1013-1015, 1050-1052).
LinkContentResultUnresolved(st, addr) ==
  IF ~Resolves(st, addr) THEN SC_RESULT_ERROR_ADDR_IS_NOT_VALID ELSE SC_RESULT_OK

\* sc_storage_get_arc_info
sc_storage_get_arc_info(st, addr) ==
  IF ~Resolves(st, addr)
  THEN [result |-> SC_RESULT_ERROR_ADDR_IS_NOT_VALID,
        begin_addr |-> SC_ADDR_EMPTY, end_addr |-> SC_ADDR_EMPTY]
  ELSE IF BitAnd(Elem(st, addr).type, sc_type_arc_mask) = 0
  THEN [result |-> SC_RESULT_ERROR_ELEMENT_IS_NOT_CONNECTOR,
        begin_addr |-> SC_ADDR_EMPTY, end_addr |-> SC_ADDR_EMPTY]
  ELSE [result |-> SC_RESULT_OK,
        begin_addr |-> Elem(st, addr).begin, end_addr |-> Elem(st, addr).end]

\* A stream: get_data is whether sc_stream_get_data returns SC_TRUE, string
\* is the data it gives then.
Stream(get_data, string) == [get_data |-> get_data, string |-> string]

\* The null stream pointer.
NullStream == [null |-> TRUE, string |-> ""]

\* sc_stream_memory_new
sc_stream_memory_new(string) == [null |-> FALSE, string |-> string]

\* A variant of sc_storage_set_link_content that does not test the type of
\* the element.
sc_storage_set_link_content_any_type(st, addr, stream, fs_ok) ==
  IF ~stream.get_data THEN [result |-> SC_RESULT_ERROR_IO, calls |-> <<>>]
  ELSE IF ~Resolves(st, addr)
  THEN [result |-> SC_RESULT_ERROR_ADDR_IS_NOT_VALID, calls |-> <<>>]
  ELSE IF ~fs_ok
  THEN [result |-> SC_RESULT_OK, calls |-> <<LinkCall(addr, stream.string, FALSE)>>]
  ELSE [result |-> SC_RESULT_OK,
        calls |-> <<LinkCall(addr, stream.string, TRUE),
                    EmitCall(addr, SC_EVENT_CONTENT_CHANGED, SC_ADDR_EMPTY, SC_ADDR_EMPTY)>>]

\* sc_storage_set_link_content: fs_ok is whether FS-memory reports
\* SC_FS_MEMORY_OK for the string.  result is the value returned, calls the
\* calls made to FS-memory and to the events, in order.  When FS-memory
\* reports a failure the function returns the SC_RESULT_OK that
\* sc_storage_get_element_by_addr left in result.
sc_storage_set_link_content(st, addr, stream, fs_ok) ==
  IF ~stream.get_data THEN [result |-> SC_RESULT_ERROR_IO, calls |-> <<>>]
  ELSE IF ~Resolves(st, addr)
  THEN [result |-> SC_RESULT_ERROR_ADDR_IS_NOT_VALID, calls |-> <<>>]
  ELSE IF BitAnd(Elem(st, addr).type, sc_type_link) # sc_type_link
  THEN [result |-> SC_RESULT_ERROR_ELEMENT_IS_NOT_LINK, calls |-> <<>>]
  ELSE IF ~fs_ok
  THEN [result |-> SC_RESULT_OK, calls |-> <<LinkCall(addr, stream.string, FALSE)>>]
  ELSE [result |-> SC_RESULT_OK,
        calls |-> <<LinkCall(addr, stream.string, TRUE),
                    EmitCall(addr, SC_EVENT_CONTENT_CHANGED, SC_ADDR_EMPTY, SC_ADDR_EMPTY)>>]

\* sc_storage_get_link_content: stream is what the function leaves in
\* *stream.  When FS-memory reports a failure the function returns the
\* SC_RESULT_OK that sc_storage_get_element_by_addr left in result.
sc_storage_get_link_content(st, fs, addr, fs_ok) ==
  IF ~Resolves(st, addr)
  THEN [result |-> SC_RESULT_ERROR_ADDR_IS_NOT_VALID, stream |-> NullStream, calls |-> <<>>]
  ELSE IF BitAnd(Elem(st, addr).type, sc_type_link) # sc_type_link
  THEN [result |-> SC_RESULT_ERROR_INVALID_TYPE, stream |-> NullStream, calls |-> <<>>]
  ELSE IF ~fs_ok
  THEN [result |-> SC_RESULT_OK, stream |-> NullStream,
        calls |-> <<GetStringCall(addr, FALSE)>>]
  ELSE [result |-> SC_RESULT_OK,
        stream |-> sc_stream_memory_new(
                     sc_fs_memory_get_string_by_link_hash(fs, SC_ADDR_LOCAL_TO_INT(addr))),
        calls |-> <<GetStringCall(addr, TRUE)>>]

\* ---------------------------------------------------------------- iterator
\* sc_iterator_compare_type: the filter's bits are all in the element's type
\* (the types of this model carry no flag bits for sc_flags_remove to clear).
sc_iterator_compare_type(el_type, it_type) == BitAnd(it_type, el_type) = it_type

\* _sc_iterator_ref_element: the pinned address is an element that exists, is
\* not requested for deletion and has a type.
sc_iterator_ref_element(st, addr) ==
  /\ Resolves(st, addr)
  /\ BitAnd(Elem(st, addr).access_levels, SC_ACCESS_LVL_REQUEST_DELETION) = 0
  /\ Elem(st, addr).type # 0

\* The connectors the calls of _sc_iterator3_f_a_f_next yield, in order: the
\* walk over the next_in_arc chain that starts at arc_addr.
RECURSIVE FAFWalk(_, _, _, _, _)
FAFWalk(st, arc_addr, beg_addr, arc_type, fuel) ==
  IF SC_ADDR_IS_EMPTY(arc_addr) \/ fuel = 0 \/ ~PtrNotNull(st, arc_addr) THEN <<>>
  ELSE
    LET el == Elem(st, arc_addr)
        rest == FAFWalk(st, el.next_in_arc, beg_addr, arc_type, fuel - 1)
    IN IF /\ BitAnd(el.access_levels, SC_ACCESS_LVL_REQUEST_DELETION) = 0
          /\ el.begin = beg_addr
          /\ sc_iterator_compare_type(el.type, arc_type)
       THEN <<arc_addr>> \o rest
       ELSE rest

\* sc_iterator3_f_a_f_new followed by sc_iterator3_next until it returns
\* SC_FALSE: valid is FALSE when no iterator is made.
sc_iterator3_f_a_f(st, el_beg, arc_type, el_end) ==
  IF ~sc_iterator_ref_element(st, el_beg) \/ ~sc_iterator_ref_element(st, el_end)
  THEN [valid |-> FALSE, results |-> <<>>]
  ELSE [valid |-> TRUE,
        results |-> FAFWalk(st, Elem(st, el_end).first_in_arc, el_beg, arc_type, ChainFuel)]

\* sc_iterator_param: a pinned address or a type filter.
AddrParam(addr) == [is_type |-> FALSE, addr |-> addr, type |-> 0]
TypeParam(type) == [is_type |-> TRUE, addr |-> SC_ADDR_EMPTY, type |-> type]

\* sc_iterator3_type and, for each, which parameters are type filters.
IteratorTypes == {"f_a_a", "a_a_f", "f_a_f", "a_f_a", "f_f_a", "a_f_f", "f_f_f"}

IsTypeTemplate(type) ==
  CASE type = "f_a_a" -> <<FALSE, TRUE, TRUE>>
    [] type = "a_a_f" -> <<TRUE, TRUE, FALSE>>
    [] type = "f_a_f" -> <<FALSE, TRUE, FALSE>>
    [] type = "a_f_a" -> <<TRUE, FALSE, TRUE>>
    [] type = "f_f_a" -> <<FALSE, FALSE, TRUE>>
    [] type = "a_f_f" -> <<TRUE, FALSE, FALSE>>
    [] type = "f_f_f" -> <<FALSE, FALSE, FALSE>>

EmptyResults == <<SC_ADDR_EMPTY, SC_ADDR_EMPTY, SC_ADDR_EMPTY>>

\* null_ptr where a sc_iterator3 * is expected.
NullIterator ==
  [null |-> TRUE, type |-> "f_f_f", params |-> <<TypeParam(0), TypeParam(0), TypeParam(0)>>,
   results |-> EmptyResults, finished |-> FALSE]

\* sc_iterator3_new: null_ptr when a parameter does not fit the template or a
\* pinned element cannot be referenced; else a zero-filled iterator with the
\* parameters stored.
sc_iterator3_new(st, type, p1, p2, p3) ==
  IF \E i \in 1..3 :
       \/ <<p1, p2, p3>>[i].is_type # IsTypeTemplate(type)[i]
       \/ /\ ~<<p1, p2, p3>>[i].is_type
          /\ ~sc_iterator_ref_element(st, <<p1, p2, p3>>[i].addr)
  THEN NullIterator
  ELSE [null |-> FALSE, type |-> type, params |-> <<p1, p2, p3>>,
        results |-> EmptyResults, finished |-> FALSE]

\* The outcome of one call of a next function: the iterator after it, the
\* value returned, and hang when the call never returns.
NextResult(it, result) == [it |-> it, result |-> result, hang |-> FALSE]
NextHangs(it) == [it |-> it, result |-> FALSE, hang |-> TRUE]

\* The type sc_storage_get_element_type leaves in a variable that held init.
TypeOr(st, addr, init) ==
  IF Resolves(st, addr) THEN sc_storage_get_element_type(st, addr).type ELSE init

\* The loop of _sc_iterator3_f_a_a_next over the next_out_arc chain from
\* arc_addr.  uninit is the value el_type holds before it is assigned.
RECURSIVE FAALoop(_, _, _, _, _)
FAALoop(st, it, arc_addr, uninit, fuel) ==
  IF SC_ADDR_IS_EMPTY(arc_addr) THEN NextResult([it EXCEPT !.finished = TRUE], FALSE)
  ELSE IF fuel = 0 \/ ~PtrNotNull(st, arc_addr) THEN NextHangs(it)
  ELSE IF /\ BitAnd(Elem(st, arc_addr).access_levels, SC_ACCESS_LVL_REQUEST_DELETION) = 0
          /\ sc_iterator_compare_type(Elem(st, arc_addr).type, it.params[2].type)
          /\ sc_iterator_compare_type(TypeOr(st, Elem(st, arc_addr).end, uninit),
                                      it.params[3].type)
       THEN NextResult([it EXCEPT !.results[2] = arc_addr,
                                  !.results[3] = Elem(st, arc_addr).end], TRUE)
       ELSE FAALoop(st, it, Elem(st, arc_addr).next_out_arc, uninit, fuel - 1)

\* The address _sc_iterator3_f_a_a_next starts its loop from: first_out_arc of
\* the pinned element on the first call, next_out_arc of the cursor after it.
FAAStart(st, it) ==
  IF SC_ADDR_IS_EMPTY(it.results[2])
  THEN Elem(st, it.params[1].addr).first_out_arc
  ELSE Elem(st, it.results[2]).next_out_arc

\* _sc_iterator3_f_a_a_next
sc_iterator3_f_a_a_next(st, it, uninit) ==
  FAALoop(st, [it EXCEPT !.results[1] = it.params[1].addr], FAAStart(st, it),
          uninit, ChainFuel)

\* The loop of _sc_iterator3_f_a_f_next over the next_in_arc chain.
RECURSIVE FAFLoop(_, _, _, _)
FAFLoop(st, it, arc_addr, fuel) ==
  IF SC_ADDR_IS_EMPTY(arc_addr) THEN NextResult([it EXCEPT !.finished = TRUE], FALSE)
  ELSE IF fuel = 0 \/ ~PtrNotNull(st, arc_addr) THEN NextHangs(it)
  ELSE IF /\ BitAnd(Elem(st, arc_addr).access_levels, SC_ACCESS_LVL_REQUEST_DELETION) = 0
          /\ it.params[1].addr = Elem(st, arc_addr).begin
          /\ sc_iterator_compare_type(Elem(st, arc_addr).type, it.params[2].type)
       THEN NextResult([it EXCEPT !.results[2] = arc_addr], TRUE)
       ELSE FAFLoop(st, it, Elem(st, arc_addr).next_in_arc, fuel - 1)

\* _sc_iterator3_f_a_f_next
sc_iterator3_f_a_f_next(st, it) ==
  FAFLoop(st, [it EXCEPT !.results[1] = it.params[1].addr,
                         !.results[3] = it.params[3].addr],
          IF SC_ADDR_IS_EMPTY(it.results[2])
          THEN Elem(st, it.params[3].addr).first_in_arc
          ELSE Elem(st, it.results[2]).next_in_arc,
          ChainFuel)

\* The loop of _sc_iterator3_a_a_f_next over the next_in_arc chain.
RECURSIVE AAFLoop(_, _, _, _)
AAFLoop(st, it, arc_addr, fuel) ==
  IF SC_ADDR_IS_EMPTY(arc_addr) THEN NextResult([it EXCEPT !.finished = TRUE], FALSE)
  ELSE IF fuel = 0 \/ ~PtrNotNull(st, arc_addr) THEN NextHangs(it)
  ELSE IF /\ BitAnd(Elem(st, arc_addr).access_levels, SC_ACCESS_LVL_REQUEST_DELETION) = 0
          /\ sc_iterator_compare_type(Elem(st, arc_addr).type, it.params[2].type)
          /\ sc_iterator_compare_type(TypeOr(st, Elem(st, arc_addr).begin, 0),
                                      it.params[1].type)
       THEN NextResult([it EXCEPT !.results[2] = arc_addr,
                                  !.results[1] = Elem(st, arc_addr).begin], TRUE)
       ELSE AAFLoop(st, it, Elem(st, arc_addr).next_in_arc, fuel - 1)

\* _sc_iterator3_a_a_f_next
sc_iterator3_a_a_f_next(st, it) ==
  AAFLoop(st, [it EXCEPT !.results[3] = it.params[3].addr],
          IF SC_ADDR_IS_EMPTY(it.results[2])
          THEN Elem(st, it.params[3].addr).first_in_arc
          ELSE Elem(st, it.results[2]).next_in_arc,
          ChainFuel)

\* The triple of the fixed connector of it: its begin, itself, its end.
ConnectorTriple(st, it) ==
  <<Elem(st, it.params[2].addr).begin, it.params[2].addr, Elem(st, it.params[2].addr).end>>

\* _sc_iterator3_a_f_a_next
sc_iterator3_a_f_a_next(st, it) ==
  IF ~it.finished
  THEN NextResult([it EXCEPT !.finished = TRUE, !.results = ConnectorTriple(st, it)], TRUE)
  ELSE NextResult(it, FALSE)

\* _sc_iterator3_f_f_a_next without the comparison of the connector's begin.
sc_iterator3_f_f_a_next_any_begin(st, it) ==
  IF it.finished THEN NextResult(it, FALSE)
  ELSE NextResult([it EXCEPT !.finished = TRUE, !.results = ConnectorTriple(st, it)], TRUE)

\* _sc_iterator3_f_f_a_next
sc_iterator3_f_f_a_next(st, it) ==
  IF it.finished THEN NextResult(it, FALSE)
  ELSE IF it.params[1].addr = Elem(st, it.params[2].addr).begin
       THEN NextResult([it EXCEPT !.finished = TRUE, !.results = ConnectorTriple(st, it)], TRUE)
       ELSE NextResult([it EXCEPT !.finished = TRUE], FALSE)

\* _sc_iterator3_a_f_f_next
sc_iterator3_a_f_f_next(st, it) ==
  IF it.finished THEN NextResult(it, FALSE)
  ELSE IF it.params[3].addr = Elem(st, it.params[2].addr).end
       THEN NextResult([it EXCEPT !.finished = TRUE, !.results = ConnectorTriple(st, it)], TRUE)
       ELSE NextResult([it EXCEPT !.finished = TRUE], FALSE)

\* _sc_iterator3_f_f_f_next
sc_iterator3_f_f_f_next(st, it) ==
  IF it.finished THEN NextResult(it, FALSE)
  ELSE IF /\ it.params[1].addr = Elem(st, it.params[2].addr).begin
          /\ it.params[3].addr = Elem(st, it.params[2].addr).end
       THEN NextResult([it EXCEPT !.finished = TRUE, !.results = ConnectorTriple(st, it)], TRUE)
       ELSE NextResult([it EXCEPT !.finished = TRUE], FALSE)

\* sc_iterator3_next
sc_iterator3_next(st, it, uninit) ==
  IF it.null \/ it.finished THEN NextResult(it, FALSE)
  ELSE CASE it.type = "f_a_a" -> sc_iterator3_f_a_a_next(st, it, uninit)
         [] it.type = "f_a_f" -> sc_iterator3_f_a_f_next(st, it)
         [] it.type = "a_a_f" -> sc_iterator3_a_a_f_next(st, it)
         [] it.type = "a_f_a" -> sc_iterator3_a_f_a_next(st, it)
         [] it.type = "f_f_a" -> sc_iterator3_f_f_a_next(st, it)
         [] it.type = "a_f_f" -> sc_iterator3_a_f_f_next(st, it)
         [] it.type = "f_f_f" -> sc_iterator3_f_f_f_next(st, it)

\* sc_iterator3_value
sc_iterator3_value(it, vid) == it.results[vid + 1]

\* ------------------------------------------------------------------ actions
\* The type arguments the operations are called with.
NodeTypes == {sc_type_const}
LinkTypes == {sc_type_const}
ConnectorTypes == {sc_type_arc_pos_const_perm, sc_type_edge_common_const}

\* sc_storage_initialize: an empty storage for max_loaded_segments = max.
InitStorage(max) ==
  [segments |-> [i \in 1..MaxSegments |-> NullSegment],
   segments_count |-> 0,
   max_segments_count |-> max,
   last_not_engaged_segment_num |-> 0,
   last_released_segment_num |-> 0,
   processes_segments_table |-> [t \in Threads |-> 0]]

\* The caller follows no prescribed sequence.
NoScenario ==
  [phase |-> "none", made |-> <<>>, erased |-> {}, count |-> 0, bound |-> 0, again |-> <<>>]

\* No thread is inside a call.
NotRunning == [spec |-> "none"]

InitWith(maxes) ==
  /\ \E max \in maxes : storage = InitStorage(max)
  /\ last = [op |-> "init", addr |-> SC_ADDR_EMPTY, res |-> SC_RESULT_OK]
  /\ steps = 0
  /\ hung = FALSE
  /\ scenario = NoScenario
  /\ events = NoEvents
  /\ fs_memory = <<>>
  /\ iterator = NullIterator
  /\ running = NotRunning

Init == InitWith({GraphSegments})

InitAlloc == InitWith(0..MaxSegments)

\* An operation may start when no earlier one hangs and the run has not used
\* up its n operations; n = 0 is a run of any length.
Budget(n) == ~hung /\ (n = 0 \/ steps < n)
Spend(n) == IF n = 0 THEN steps ELSE steps + 1

\* An operation that returns an address, applied: r is its outcome.
Returned(op, r, n) ==
  /\ hung' = r.hang
  /\ storage' = IF r.hang THEN storage ELSE r.st
  /\ last' = [op |-> op, addr |-> r.addr,
              res |-> IF SC_ADDR_IS_EMPTY(r.addr) THEN SC_RESULT_ERROR ELSE SC_RESULT_OK]
  /\ steps' = Spend(n)
  /\ events' = ApplyEventCalls(events, r.emits)
  /\ UNCHANGED <<scenario, fs_memory, iterator, running>>

NodeNew(thread, type, n) ==
  /\ Budget(n)
  /\ \E r \in {sc_storage_node_new(storage, thread, type)} : Returned("node_new", r, n)

LinkNew(thread, type, n) ==
  /\ Budget(n)
  /\ \E r \in {sc_storage_link_new(storage, thread, type)} : Returned("link_new", r, n)

ArcNew(thread, type, beg_addr, end_addr, n) ==
  /\ Budget(n)
  /\ \E r \in {sc_storage_arc_new(storage, thread, type, beg_addr, end_addr)} :
       Returned("arc_new", r, n)

ElementFree(addr, n) ==
  /\ Budget(n)
  /\ \E r \in {sc_storage_element_free(storage, addr)} :
        /\ hung' = r.hang
        /\ storage' = r.st
        /\ last' = [op |-> "element_free", addr |-> addr, res |-> r.result]
        /\ events' = ApplyEventCalls(events, r.calls)
        /\ fs_memory' = ApplyFsCalls(fs_memory, r.calls)
  /\ steps' = Spend(n)
  /\ UNCHANGED <<scenario, iterator, running>>

ChangeSubtype(addr, type, n) ==
  /\ Budget(n)
  /\ \E r \in {sc_storage_change_element_subtype(storage, addr, type)} :
        /\ storage' = r.st
        /\ last' = [op |-> "change_subtype", addr |-> addr, res |-> r.result]
  /\ steps' = Spend(n)
  /\ UNCHANGED <<hung, scenario, events, fs_memory, iterator, running>>

StartNewProcess(thread, n) ==
  /\ Budget(n)
  /\ storage' = sc_storage_start_new_process(storage, thread)
  /\ last' = [op |-> "start_new_process", addr |-> SC_ADDR_EMPTY, res |-> SC_RESULT_OK]
  /\ steps' = Spend(n)
  /\ UNCHANGED <<hung, scenario, events, fs_memory, iterator, running>>

EndNewProcess(thread, n) ==
  /\ Budget(n)
  /\ storage' = sc_storage_end_new_process(storage, thread)
  /\ last' = [op |-> "end_new_process", addr |-> SC_ADDR_EMPTY, res |-> SC_RESULT_OK]
  /\ steps' = Spend(n)
  /\ UNCHANGED <<hung, scenario, events, fs_memory, iterator, running>>

\* The graph operations, called by any thread with any arguments.
GraphAddrs == SlotAddrs(GraphSegments) \cup {SC_ADDR_EMPTY, MakeAddr(1, 0)}

Next ==
  \/ \E thread \in Threads, type \in NodeTypes : NodeNew(thread, type, MaxOps)
  \/ \E thread \in Threads, type \in LinkTypes : LinkNew(thread, type, MaxOps)
  \/ \E thread \in Threads, type \in ConnectorTypes, b \in GraphAddrs, e \in GraphAddrs :
       ArcNew(thread, type, b, e, MaxOps)
  \/ \E addr \in GraphAddrs : ElementFree(addr, MaxOps)

Spec == Init /\ [][Next]_vars

\* The graph operations called with live elements only, in longer runs.
LiveSlots == {a \in SlotAddrs(GraphSegments) : Resolves(storage, a)}

NextLive ==
  \/ \E thread \in Threads, type \in NodeTypes : NodeNew(thread, type, MaxLiveOps)
  \/ \E thread \in Threads, type \in LinkTypes : LinkNew(thread, type, MaxLiveOps)
  \/ \E thread \in Threads, type \in ConnectorTypes, b \in LiveSlots, e \in LiveSlots :
       ArcNew(thread, type, b, e, MaxLiveOps)
  \/ \E addr \in LiveSlots : ElementFree(addr, MaxLiveOps)

SpecLive == Init /\ [][NextLive]_vars

\* The allocator operations alone: nodes are created and erased and the
\* threads start and end processes, in runs of any length.
AllocAddrs == SlotAddrs(MaxSegments) \cup {SC_ADDR_EMPTY}

NextAlloc ==
  \/ \E thread \in Threads : NodeNew(thread, sc_type_const, 0)
  \/ \E addr \in AllocAddrs : ElementFree(addr, 0)
  \/ \E thread \in Threads : StartNewProcess(thread, 0)
  \/ \E thread \in Threads : EndNewProcess(thread, 0)

SpecAlloc == InitAlloc /\ [][NextAlloc]_vars


\* Creation and erase alone, by threads that never start or end a process, in
\* runs of any length.
NextPool ==
  \/ \E thread \in Threads : NodeNew(thread, sc_type_const, 0)
  \/ \E addr \in AllocAddrs : ElementFree(addr, 0)

SpecPool == InitAlloc /\ [][NextPool]_vars

\* The operations on link content and the queries next to the graph
\* operations.  Strings are the contents written, with a stream that gives
\* its data or not and an FS-memory that reports success or failure.
Strings == {"", "s"}

SetLinkContent(addr, stream, fs_ok, n) ==
  /\ Budget(n)
  /\ \E r \in {sc_storage_set_link_content(storage, addr, stream, fs_ok)} :
        /\ last' = [op |-> "set_link_content", addr |-> addr, res |-> r.result]
        /\ events' = ApplyEventCalls(events, r.calls)
        /\ fs_memory' = ApplyFsCalls(fs_memory, r.calls)
  /\ steps' = Spend(n)
  /\ UNCHANGED <<storage, hung, scenario, iterator, running>>

GetLinkContent(addr, fs_ok, n) ==
  /\ Budget(n)
  /\ last' = [op |-> "get_link_content", addr |-> addr,
              res |-> sc_storage_get_link_content(storage, fs_memory, addr, fs_ok).result]
  /\ steps' = Spend(n)
  /\ UNCHANGED <<storage, hung, scenario, events, fs_memory, iterator, running>>

GetArcInfo(addr, n) ==
  /\ Budget(n)
  /\ last' = [op |-> "get_arc_info", addr |-> addr,
              res |-> sc_storage_get_arc_info(storage, addr).result]
  /\ steps' = Spend(n)
  /\ UNCHANGED <<storage, hung, scenario, events, fs_memory, iterator, running>>

\* The types change_subtype is called with.
SubtypeArgs ==
  {sc_type_node + sc_type_const, sc_type_node + sc_type_var, sc_type_link + sc_type_var,
   sc_type_arc_pos_const_perm, sc_type_arc_common + sc_type_const, 0}

NextContent ==
  \/ \E thread \in Threads, type \in NodeTypes : NodeNew(thread, type, MaxContentOps)
  \/ \E thread \in Threads, type \in LinkTypes : LinkNew(thread, type, MaxContentOps)
  \/ \E thread \in Threads, type \in ConnectorTypes, b \in LiveSlots, e \in LiveSlots :
       ArcNew(thread, type, b, e, MaxContentOps)
  \/ \E addr \in LiveSlots : ElementFree(addr, MaxContentOps)
  \/ \E addr \in GraphAddrs, get_data \in BOOLEAN, string \in Strings, fs_ok \in BOOLEAN :
       SetLinkContent(addr, Stream(get_data, string), fs_ok, MaxContentOps)
  \/ \E addr \in GraphAddrs, fs_ok \in BOOLEAN : GetLinkContent(addr, fs_ok, MaxContentOps)
  \/ \E addr \in GraphAddrs : GetArcInfo(addr, MaxContentOps)
  \/ \E addr \in GraphAddrs, type \in SubtypeArgs : ChangeSubtype(addr, type, MaxContentOps)

SpecContent == Init /\ [][NextContent]_vars

\* The iterators over a quiescent store: the graph operations run while the
\* caller holds no iterator; the caller then makes one, calls next on it any
\* number of times and frees it.
SC_TRUE == "SC_TRUE"
SC_FALSE == "SC_FALSE"

\* The type filters the iterators are made with.
IteratorFilters == {0, sc_type_node, sc_type_edge_common}

\* The parameters the iterators are made with.
IteratorParams ==
  {AddrParam(addr) : addr \in LiveSlots \cup {SC_ADDR_EMPTY}}
    \cup {TypeParam(type) : type \in IteratorFilters}

\* The values an uninitialized sc_type can hold.
UninitTypes == {0, sc_type_node + sc_type_const}

IteratorNew(type, p1, p2, p3) ==
  /\ ~hung
  /\ iterator.null
  /\ iterator' = sc_iterator3_new(storage, type, p1, p2, p3)
  /\ last' = [op |-> "iterator3_new", addr |-> SC_ADDR_EMPTY,
              res |-> IF iterator'.null THEN SC_FALSE ELSE SC_TRUE]
  /\ UNCHANGED <<storage, steps, hung, scenario, events, fs_memory, running>>

IteratorNext(uninit) ==
  /\ ~hung
  /\ ~iterator.null
  /\ \E r \in {sc_iterator3_next(storage, iterator, uninit)} :
        /\ iterator' = r.it
        /\ hung' = r.hang
        /\ last' = [op |-> "iterator3_next", addr |-> sc_iterator3_value(r.it, 1),
                    res |-> IF r.result THEN SC_TRUE ELSE SC_FALSE]
  /\ UNCHANGED <<storage, steps, scenario, events, fs_memory, running>>

\* sc_iterator3_free
IteratorFree ==
  /\ ~hung
  /\ ~iterator.null
  /\ iterator' = NullIterator
  /\ last' = [op |-> "iterator3_free", addr |-> SC_ADDR_EMPTY, res |-> SC_TRUE]
  /\ UNCHANGED <<storage, steps, hung, scenario, events, fs_memory, running>>

NextIter ==
  \/ \E thread \in Threads, type \in NodeTypes :
       iterator.null /\ NodeNew(thread, type, MaxIterOps)
  \/ \E thread \in Threads, type \in ConnectorTypes, b \in LiveSlots, e \in LiveSlots :
       iterator.null /\ ArcNew(thread, type, b, e, MaxIterOps)
  \/ \E addr \in LiveSlots : iterator.null /\ ElementFree(addr, MaxIterOps)
  \/ \E type \in IteratorTypes, p1 \in IteratorParams, p2 \in IteratorParams,
        p3 \in IteratorParams : IteratorNew(type, p1, p2, p3)
  \/ \E uninit \in UninitTypes : IteratorNext(uninit)
  \/ IteratorFree

SpecIter == Init /\ [][NextIter]_vars

\* The subscriptions next to the graph operations: events are made and
\* destroyed while connectors are created and elements erased.  No worker
\* takes a record from the emission queue.
EventTypes == {SC_EVENT_ADD_OUTPUT_ARC, SC_EVENT_ADD_INPUT_ARC}

EventNew(el, type, n) ==
  /\ Budget(n)
  /\ Len(events.objects) < MaxEvents
  /\ events' = sc_event_new(events, el, type).ev
  /\ last' = [op |-> "event_new", addr |-> el,
              res |-> IF sc_event_new(events, el, type).event = 0
                      THEN SC_RESULT_ERROR ELSE SC_RESULT_OK]
  /\ steps' = Spend(n)
  /\ UNCHANGED <<storage, hung, scenario, fs_memory, iterator, running>>

EventDestroy(event, n) ==
  /\ Budget(n)
  /\ events' = sc_event_destroy(events, event).ev
  /\ last' = [op |-> "event_destroy", addr |-> SC_ADDR_EMPTY,
              res |-> sc_event_destroy(events, event).result]
  /\ steps' = Spend(n)
  /\ UNCHANGED <<storage, hung, scenario, fs_memory, iterator, running>>

NextEvent ==
  \/ \E thread \in Threads, type \in NodeTypes : NodeNew(thread, type, MaxEventOps)
  \/ \E thread \in Threads, type \in ConnectorTypes, b \in LiveSlots, e \in LiveSlots :
       ArcNew(thread, type, b, e, MaxEventOps)
  \/ \E addr \in LiveSlots : ElementFree(addr, MaxEventOps)
  \/ \E el \in LiveSlots \cup {SC_ADDR_EMPTY}, type \in EventTypes :
       EventNew(el, type, MaxEventOps)
  \/ \E event \in DOMAIN events.objects : EventDestroy(event, MaxEventOps)

SpecEvent == Init /\ [][NextEvent]_vars

\* The subscriptions to the events of an erase: events of the three REMOVE
\* kinds are made and destroyed while connectors are created and elements
\* erased.
RemoveEventTypes ==
  {SC_EVENT_REMOVE_OUTPUT_ARC, SC_EVENT_REMOVE_INPUT_ARC, SC_EVENT_REMOVE_ELEMENT}

NextRemove ==
  \/ \E thread \in Threads, type \in NodeTypes : NodeNew(thread, type, MaxRemoveOps)
  \/ \E thread \in Threads, type \in ConnectorTypes, b \in LiveSlots, e \in LiveSlots :
       ArcNew(thread, type, b, e, MaxRemoveOps)
  \/ \E addr \in LiveSlots : ElementFree(addr, MaxRemoveOps)
  \/ \E el \in LiveSlots, type \in RemoveEventTypes : EventNew(el, type, MaxRemoveOps)
  \/ \E event \in DOMAIN events.objects : EventDestroy(event, MaxRemoveOps)

SpecRemove == Init /\ [][NextRemove]_vars

\* One thread on a storage of one segment that creates and erases only
\* between sc_storage_start_new_process and sc_storage_end_new_process
\* (tests/sc-memory/common/sc-elements.cpp, DistributedMemory).
InProcess == last.op \notin {"init", "end_new_process"}

InitProcess == InitWith({1})

NextProcess ==
  \/ ~InProcess /\ \E thread \in Threads : StartNewProcess(thread, MaxProcessOps)
  \/ InProcess /\ \E thread \in Threads : EndNewProcess(thread, MaxProcessOps)
  \/ InProcess /\ \E thread \in Threads, type \in NodeTypes :
                    NodeNew(thread, type, MaxProcessOps)
  \/ InProcess /\ \E thread \in Threads, type \in ConnectorTypes,
                     b \in LiveSlots, e \in LiveSlots :
                    ArcNew(thread, type, b, e, MaxProcessOps)
  \/ InProcess /\ \E addr \in LiveSlots : ElementFree(addr, MaxProcessOps)

SpecProcess == InitProcess /\ [][NextProcess]_vars

\* ------------------------------------------- concurrent calls on one element
\* Thread "notify" runs sc_event_notify_element_deleted(el) while thread
\* "other" calls sc_event_new, sc_event_destroy and sc_event_emit_impl for the
\* same element.  running.head is the entry of the events table for el (0 is
\* null_ptr), running.nodes the list nodes allocated so far (a freed node keeps
\* its contents), running.list the local element_events_list of each thread.
\* A section under events_table_monitor is one step; what a thread does
\* between two sections is a step of its own.

\* The nodes of the list that starts at node list, in order.
RECURSIVE ListNodes(_, _, _)
ListNodes(nodes, list, fuel) ==
  IF list = 0 \/ fuel = 0 THEN <<>>
  ELSE <<list>> \o ListNodes(nodes, nodes[list].next, fuel - 1)

\* The state at the start: k subscriptions on el, in one list.
NotifyStart(k) ==
  [spec |-> "notify",
   head |-> IF k = 0 THEN 0 ELSE 1,
   nodes |-> [i \in 1..k |-> [data |-> i, next |-> IF i = k THEN 0 ELSE i + 1,
                              freed |-> FALSE]],
   handles |-> k, destroyed |-> {}, deletable |-> <<>>, emission |-> <<>>,
   pc |-> [notify |-> "read", other |-> "idle"],
   list |-> [notify |-> 0, other |-> 0],
   calls |-> 0, stale |-> FALSE]

InitNotify ==
  /\ \E max \in {GraphSegments} : storage = InitStorage(max)
  /\ last = [op |-> "init", addr |-> SC_ADDR_EMPTY, res |-> SC_RESULT_OK]
  /\ steps = 0
  /\ hung = FALSE
  /\ scenario = NoScenario
  /\ events = NoEvents
  /\ fs_memory = <<>>
  /\ iterator = NullIterator
  /\ \E k \in 0..MaxSubscriptions : running = NotifyStart(k)

\* One step of a walk over the list a thread holds in element_events_list:
\* the node is read, Visit does the work for its event, the thread moves to
\* the next node.  Reading a freed node is undefined: the walk goes on with
\* the node's old contents or the thread stops.
WalkStep(thread, Visit(_, _), free, after) ==
  LET node == running.nodes[running.list[thread]]
      Moved(r) == [r EXCEPT !.list[thread] = node.next,
                            !.nodes[running.list[thread]].freed = @ \/ free]
  IN IF running.list[thread] = 0
     THEN running' = [running EXCEPT !.pc[thread] = after]
     ELSE IF node.freed
     THEN \/ running' = [Moved(Visit(running, node.data)) EXCEPT !.stale = TRUE]
          \/ running' = [running EXCEPT !.stale = TRUE, !.pc[thread] = after]
     ELSE running' = Moved(Visit(running, node.data))

\* sc_event_notify_element_deleted: the list is read under the read lock, taken
\* out of the table under the write lock, then walked and freed node by node.
NotifyStep ==
  /\ running.pc.notify \in {"read", "remove", "walk"}
  /\ \/ /\ running.pc.notify = "read"
        /\ running' = [running EXCEPT
                         !.list.notify = running.head,
                         !.pc.notify = IF running.head = 0 THEN "done" ELSE "remove"]
     \/ /\ running.pc.notify = "remove"
        /\ running' = [running EXCEPT !.head = 0, !.pc.notify = "walk"]
     \/ /\ running.pc.notify = "walk"
        /\ WalkStep("notify",
                    LAMBDA r, event : [r EXCEPT !.deletable = Append(@, event)],
                    TRUE, "done")
  /\ UNCHANGED <<storage, last, steps, hung, scenario, events, fs_memory, iterator>>

\* The second thread is between two calls and may start one more.
OtherIdle == running.pc.other = "idle" /\ running.calls < MaxNotifyCalls

\* sc_event_new for el: _sc_event_registration_manager_add appends a node for
\* the new event to the list of the table, under the write lock.
SubscribeStep ==
  /\ OtherIdle
  /\ LET node == [data |-> running.handles + 1, next |-> 0, freed |-> FALSE]
         chain == ListNodes(running.nodes, running.head, Len(running.nodes))
         added == [running EXCEPT !.nodes = Append(@, node),
                                  !.handles = @ + 1, !.calls = @ + 1]
     IN running' = IF running.head = 0
                   THEN [added EXCEPT !.head = Len(running.nodes) + 1]
                   ELSE [added EXCEPT !.nodes[chain[Len(chain)]].next =
                                         Len(running.nodes) + 1]
  /\ UNCHANGED <<storage, last, steps, hung, scenario, events, fs_memory, iterator>>

\* sc_event_destroy(event): _sc_event_registration_manager_remove frees the
\* node of the event under the write lock; without a list for el the call
\* returns an error.  The event's monitor is held for the whole call.
DestroyStep(event) ==
  /\ OtherIdle
  /\ event \notin running.destroyed
  /\ LET chain == ListNodes(running.nodes, running.head, Len(running.nodes))
         at == {i \in 1..Len(chain) : running.nodes[chain[i]].data = event}
         i == CHOOSE j \in at : TRUE
         unlinked == IF at = {} THEN running
                     ELSE IF i = 1
                     THEN [running EXCEPT !.head = running.nodes[chain[1]].next,
                                          !.nodes[chain[1]].freed = TRUE]
                     ELSE [running EXCEPT !.nodes[chain[i - 1]].next =
                                             running.nodes[chain[i]].next,
                                          !.nodes[chain[i]].freed = TRUE]
     IN running' = IF running.head = 0
                   THEN [running EXCEPT !.calls = @ + 1]
                   ELSE [unlinked EXCEPT !.destroyed = @ \cup {event},
                                         !.deletable = Append(@, event),
                                         !.calls = @ + 1]
  /\ UNCHANGED <<storage, last, steps, hung, scenario, events, fs_memory, iterator>>

\* sc_event_emit_impl for el: the list is read under the read lock and walked
\* without it; every event of the list has the emitted type.
EmitStep ==
  /\ \/ /\ OtherIdle
        /\ running' = [running EXCEPT !.list.other = running.head,
                                      !.pc.other = "walk", !.calls = @ + 1]
     \/ /\ running.pc.other = "walk"
        /\ WalkStep("other",
                    LAMBDA r, event : [r EXCEPT !.emission = Append(@, event)],
                    FALSE, "idle")
  /\ UNCHANGED <<storage, last, steps, hung, scenario, events, fs_memory, iterator>>

NextNotify ==
  \/ NotifyStep
  \/ SubscribeStep
  \/ \E event \in 1..running.handles : DestroyStep(event)
  \/ EmitStep

SpecNotify == InitNotify /\ [][NextNotify]_vars

\* One thread walks an F-A-A iterator while another erases connectors.  A call
\* of _sc_iterator3_f_a_a_next takes two steps: WalkRead reads the address the
\* loop starts from and unlocks the element it read it from; WalkLoop locks
\* the connectors from that address on.  running holds the address in between.
\* The store holds nodes and directed connectors, built before the walk.
WalkRead ==
  /\ ~hung
  /\ ~iterator.null
  /\ ~iterator.finished
  /\ running = NotRunning
  /\ running' = [spec |-> "walk", arc_addr |-> FAAStart(storage, iterator)]
  /\ iterator' = [iterator EXCEPT !.results[1] = iterator.params[1].addr]
  /\ last' = [op |-> "f_a_a_read", addr |-> running'.arc_addr, res |-> SC_TRUE]
  /\ UNCHANGED <<storage, steps, hung, scenario, events, fs_memory>>

WalkLoop(uninit) ==
  /\ ~hung
  /\ running.spec = "walk"
  /\ \E r \in {FAALoop(storage, iterator, running.arc_addr, uninit, ChainFuel)} :
        /\ iterator' = r.it
        /\ hung' = r.hang
        /\ last' = [op |-> "iterator3_next", addr |-> sc_iterator3_value(r.it, 1),
                    res |-> IF r.result THEN SC_TRUE ELSE SC_FALSE]
  /\ running' = NotRunning
  /\ UNCHANGED <<storage, steps, scenario, events, fs_memory>>

\* The erasing thread's step: sc_storage_element_free of a connector, between
\* any two steps of the walk.
WalkErase(addr) ==
  /\ ~iterator.null
  /\ BitAnd(Elem(storage, addr).type, sc_type_arc_mask) # 0
  /\ ElementFree(addr, MaxWalkOps)

NextWalk ==
  \/ \E thread \in Threads, type \in NodeTypes :
       iterator.null /\ NodeNew(thread, type, MaxWalkOps)
  \/ \E thread \in Threads, b \in LiveSlots, e \in LiveSlots :
       iterator.null /\ ArcNew(thread, sc_type_arc_pos_const_perm, b, e, MaxWalkOps)
  \/ \E p1 \in {AddrParam(addr) : addr \in LiveSlots}, f2 \in IteratorFilters,
        f3 \in IteratorFilters :
       IteratorNew("f_a_a", p1, TypeParam(f2), TypeParam(f3))
  \/ WalkRead
  \/ \E uninit \in UninitTypes : WalkLoop(uninit)
  \/ \E addr \in LiveSlots : WalkErase(addr)

SpecWalk == Init /\ [][NextWalk]_vars

\* Two threads, each inside one create or erase call on nodes of its own.
\* The nodes are made and erased one call at a time first; RaceBegin then
\* hands each thread one call, and running holds the store the two calls
\* started from, each thread's position and what _sc_storage_get_segment gave
\* it.  A sc_storage_node_new takes two steps, around the point where
\* _sc_storage_check_segment_type has released the segment's read lock and
\* _sc_storage_get_element has not taken its write lock yet.
RaceThreads == {1, 2}

\* sc_storage_initialize, with a table of bound segments for two threads.
InitRace ==
  /\ storage = [InitStorage(GraphSegments) EXCEPT
                  !.processes_segments_table = [t \in RaceThreads |-> 0]]
  /\ last = [op |-> "init", addr |-> SC_ADDR_EMPTY, res |-> SC_RESULT_OK]
  /\ steps = 0
  /\ hung = FALSE
  /\ scenario = NoScenario
  /\ events = NoEvents
  /\ fs_memory = <<>>
  /\ iterator = NullIterator
  /\ running = NotRunning

\* The calls a thread can be handed: a creation, or the erase of a live node.
RaceCalls ==
  {[kind |-> "node_new", addr |-> SC_ADDR_EMPTY]}
    \cup {[kind |-> "element_free", addr |-> a] : a \in LiveSlots}

RaceBegin(call1, call2) ==
  /\ ~hung
  /\ running = NotRunning
  /\ call1.kind = "element_free" => call1.addr # call2.addr
  /\ running' = [spec |-> "race", start |-> storage, call |-> <<call1, call2>>,
                 pc |-> [t \in RaceThreads |-> "called"],
                 segment |-> [t \in RaceThreads |-> 0],
                 released |-> [t \in RaceThreads |-> FALSE],
                 created |-> [t \in RaceThreads |-> FALSE],
                 addr |-> [t \in RaceThreads |-> SC_ADDR_EMPTY],
                 outside |-> FALSE]
  /\ UNCHANGED <<storage, last, steps, hung, scenario, events, fs_memory, iterator>>

\* _sc_storage_get_segment of thread's sc_storage_node_new.
RaceGetSegment(thread) ==
  /\ running.spec = "race"
  /\ running.pc[thread] = "called"
  /\ running.call[thread].kind = "node_new"
  /\ \E g \in {sc_storage_get_segment(storage, thread)} :
        /\ storage' = g.st
        /\ running' = [running EXCEPT !.pc[thread] = "checked",
                                      !.segment[thread] = g.segment,
                                      !.released[thread] = g.released]
  /\ UNCHANGED <<last, steps, hung, scenario, events, fs_memory, iterator>>

\* Whether _sc_storage_get_element, given segment and released, engages a
\* slot beyond the segment's array.
EngagesOutside(st, segment, released) ==
  /\ segment # 0
  /\ ~released
  /\ st.segments[segment].last_engaged_offset + 1 \notin Offsets

\* The rest of thread's sc_storage_node_new, from the write lock of
\* _sc_storage_get_element on.  The writes to a slot beyond the array fall
\* outside the segment: the store keeps the offset engaged and nothing else.
RaceTake(thread, type) ==
  /\ running.spec = "race"
  /\ running.pc[thread] = "checked"
  /\ IF EngagesOutside(storage, running.segment[thread], running.released[thread])
     THEN /\ storage' = [storage EXCEPT
                           !.segments[running.segment[thread]].last_engaged_offset = @ + 1]
          /\ running' = [running EXCEPT
                           !.pc[thread] = "returned",
                           !.created[thread] = TRUE,
                           !.addr[thread] =
                              MakeAddr(running.segment[thread],
                                       storage.segments[running.segment[thread]].last_engaged_offset + 1),
                           !.outside = TRUE]
          /\ last' = [op |-> "node_new",
                      addr |-> MakeAddr(running.segment[thread],
                                        storage'.segments[running.segment[thread]].last_engaged_offset),
                      res |-> SC_RESULT_OK]
          /\ hung' = hung
     ELSE \E r \in {NodeFrom(AllocateFrom(TakeSlot(
                        [st |-> storage, segment |-> running.segment[thread],
                         released |-> running.released[thread]])), type)} :
            /\ storage' = r.st
            /\ hung' = r.hang
            /\ running' = [running EXCEPT !.pc[thread] = "returned",
                                          !.created[thread] = ~SC_ADDR_IS_EMPTY(r.addr),
                                          !.addr[thread] = r.addr]
            /\ last' = [op |-> "node_new", addr |-> r.addr,
                        res |-> IF SC_ADDR_IS_EMPTY(r.addr) THEN SC_RESULT_ERROR
                                ELSE SC_RESULT_OK]
  /\ UNCHANGED <<steps, scenario, events, fs_memory, iterator>>

\* thread's sc_storage_element_free of a node without connectors.
RaceFree(thread) ==
  /\ running.spec = "race"
  /\ running.pc[thread] = "called"
  /\ running.call[thread].kind = "element_free"
  /\ \E r \in {sc_storage_element_free(storage, running.call[thread].addr)} :
        /\ storage' = r.st
        /\ hung' = r.hang
        /\ last' = [op |-> "element_free", addr |-> running.call[thread].addr,
                    res |-> r.result]
  /\ running' = [running EXCEPT !.pc[thread] = "returned"]
  /\ UNCHANGED <<steps, scenario, events, fs_memory, iterator>>

NextRace ==
  \/ \E thread \in RaceThreads, type \in NodeTypes :
       running = NotRunning /\ NodeNew(thread, type, MaxRaceOps)
  \/ \E addr \in LiveSlots : running = NotRunning /\ ElementFree(addr, MaxRaceOps)
  \/ \E call1 \in RaceCalls, call2 \in RaceCalls : RaceBegin(call1, call2)
  \/ \E thread \in RaceThreads : RaceGetSegment(thread)
  \/ \E thread \in RaceThreads, type \in NodeTypes : RaceTake(thread, type)
  \/ \E thread \in RaceThreads : RaceFree(thread)

SpecRace == InitRace /\ [][NextRace]_vars

\* The not-engaged chain with segment numbers past 255.  One thread has
\* filled the segments 1..ChainFull with nodes and holds one node in the
\* next segment; a second thread holds one node in the segment after it.
\* The two threads then end and start processes and create nodes.
ChainNode == [ZeroElement EXCEPT !.type = sc_type_node + sc_type_const,
                                !.access_levels = SC_ACCESS_LVL_ELEMENT_EXIST]

\* Segment num after engaged calls of sc_storage_node_new in it.
ChainSegment(num, engaged) ==
  [num |-> num, last_engaged_offset |-> engaged, last_released_offset |-> 0,
   elements |-> [o \in Offsets |-> IF o \in 1..engaged THEN ChainNode ELSE ZeroElement]]

InitChain ==
  /\ storage =
       [segments |-> [i \in 1..(ChainFull + 3) |->
                        IF i <= ChainFull THEN ChainSegment(i, SC_SEGMENT_ELEMENTS_COUNT - 1)
                        ELSE IF i <= ChainFull + 2 THEN ChainSegment(i, 1)
                        ELSE NullSegment],
        segments_count |-> ChainFull + 2,
        max_segments_count |-> ChainFull + 3,
        last_not_engaged_segment_num |-> 0,
        last_released_segment_num |-> 0,
        processes_segments_table |-> [t \in RaceThreads |-> ChainFull + t]]
  /\ last = [op |-> "node_new", addr |-> MakeAddr(ChainFull + 2, 1), res |-> SC_RESULT_OK]
  /\ steps = 0
  /\ hung = FALSE
  /\ scenario = NoScenario
  /\ events = NoEvents
  /\ fs_memory = <<>>
  /\ iterator = NullIterator
  /\ running = NotRunning

NextChain ==
  \/ \E thread \in RaceThreads : StartNewProcess(thread, MaxChainOps)
  \/ \E thread \in RaceThreads : EndNewProcess(thread, MaxChainOps)
  \/ \E thread \in RaceThreads : NodeNew(thread, sc_type_const, MaxChainOps)

SpecChain == InitChain /\ [][NextChain]_vars

\* The recycling scenario: after some creations and erases, one thread creates
\* up to MaxRecycle elements (phase "create"), erases all of them in any
\* order (phase "erase") and creates as many again (phase "again").  count
\* and bound are segments_count and the thread's segment when the last of the
\* elements is erased; again holds the addresses the second creations return.
RecycleThread == CHOOSE thread \in Threads : \A other \in Threads : thread <= other

RecycleCreate ==
  /\ ~hung
  /\ scenario.phase \in {"none", "create"}
  /\ Len(scenario.made) < MaxRecycle
  /\ LET r == sc_storage_node_new(storage, RecycleThread, sc_type_const)
     IN /\ hung' = r.hang
        /\ storage' = IF r.hang THEN storage ELSE r.st
        /\ last' = [op |-> "node_new", addr |-> r.addr,
                    res |-> IF SC_ADDR_IS_EMPTY(r.addr) THEN SC_RESULT_ERROR ELSE SC_RESULT_OK]
        /\ scenario' = IF SC_ADDR_IS_EMPTY(r.addr) \/ r.hang
                       THEN [scenario EXCEPT !.phase = "stopped"]
                       ELSE [scenario EXCEPT !.phase = "create", !.made = Append(@, r.addr)]
  /\ UNCHANGED <<steps, events, fs_memory, iterator, running>>

RecycleErase(addr) ==
  /\ ~hung
  /\ scenario.phase \in {"create", "erase"}
  /\ addr \in SeqRange(scenario.made) \ scenario.erased
  /\ LET r == sc_storage_element_free(storage, addr)
         done == scenario.erased \cup {addr} = SeqRange(scenario.made)
     IN /\ hung' = r.hang
        /\ storage' = r.st
        /\ last' = [op |-> "element_free", addr |-> addr, res |-> r.result]
        /\ scenario' = [scenario EXCEPT
                          !.phase = IF done THEN "again" ELSE "erase",
                          !.erased = @ \cup {addr},
                          !.count = IF done THEN r.st.segments_count ELSE @,
                          !.bound = IF done THEN r.st.processes_segments_table[RecycleThread]
                                    ELSE @]
  /\ events' = ApplyEventCalls(events, sc_storage_element_free(storage, addr).calls)
  /\ fs_memory' = ApplyFsCalls(fs_memory, sc_storage_element_free(storage, addr).calls)
  /\ UNCHANGED <<steps, iterator, running>>

RecycleAgain ==
  /\ ~hung
  /\ scenario.phase = "again"
  /\ Len(scenario.again) < Len(scenario.made)
  /\ LET r == sc_storage_node_new(storage, RecycleThread, sc_type_const)
     IN /\ hung' = r.hang
        /\ storage' = IF r.hang THEN storage ELSE r.st
        /\ last' = [op |-> "node_new", addr |-> r.addr,
                    res |-> IF SC_ADDR_IS_EMPTY(r.addr) THEN SC_RESULT_ERROR ELSE SC_RESULT_OK]
        /\ scenario' = [scenario EXCEPT !.again = Append(@, r.addr)]
  /\ UNCHANGED <<steps, events, fs_memory, iterator, running>>

NextRecycle ==
  \/ /\ scenario.phase = "none"
     /\ \E thread \in Threads : NodeNew(thread, sc_type_const, MaxPrefixOps)
  \/ /\ scenario.phase = "none"
     /\ \E addr \in AllocAddrs : ElementFree(addr, MaxPrefixOps)
  \/ RecycleCreate
  \/ \E addr \in AllSlots : RecycleErase(addr)
  \/ RecycleAgain

SpecRecycle == InitAlloc /\ [][NextRecycle]_vars

\* =================================================================== claims
\* Vocabulary of the claims.
GraphSlots == SlotAddrs(GraphSegments)
Live(st) == {a \in AllSlots : Resolves(st, a)}
IsNode(st, a) == BitAnd(Elem(st, a).type, sc_type_node) # 0
IsLink(st, a) == BitAnd(Elem(st, a).type, sc_type_link) # 0
IsConnector(st, a) == BitAnd(Elem(st, a).type, sc_type_arc_mask) # 0
IsEdge(st, a) == BitAnd(Elem(st, a).type, sc_type_edge_common) = sc_type_edge_common
LiveConnectors(st) == {c \in Live(st) : IsConnector(st, c)}
\* The live connectors that have x as an endpoint.
IncidentTo(st, x) == {c \in LiveConnectors(st) : Elem(st, c).begin = x \/ Elem(st, c).end = x}
OutCount(st, a) == sc_storage_get_element_output_arcs_count(st, a)
InCount(st, a) == sc_storage_get_element_input_arcs_count(st, a)

\* n is a node, l a link and e a directed connector from n to l, all live;
\* e is the only connector at n and at l, and no connector is incident to e.
SingleArc(st, n, l, e) ==
  /\ Resolves(st, n) /\ Resolves(st, l) /\ Resolves(st, e)
  /\ IsNode(st, n) /\ IsLink(st, l)
  /\ IsConnector(st, e) /\ ~IsEdge(st, e)
  /\ Elem(st, e).begin = n /\ Elem(st, e).end = l
  /\ IncidentTo(st, n) = {e} /\ IncidentTo(st, l) = {e} /\ IncidentTo(st, e) = {}
  /\ OutCount(st, n) = 1 /\ InCount(st, n) = 0
  /\ OutCount(st, l) = 0 /\ InCount(st, l) = 1

\* C1: for a node n, a link l and a single directed connector e from n to l,
\* erase_element(n) succeeds and afterwards n and e are not live, l is live
\* and input_arcs_count(l) is 0.
C1_EraseNodeWithSingleArc ==
  \A n \in GraphSlots, l \in GraphSlots, e \in GraphSlots :
    SingleArc(storage, n, l, e) =>
      LET r == sc_storage_element_free(storage, n)
      IN /\ r.result = SC_RESULT_OK
         /\ ~r.hang
         /\ ~Resolves(r.st, n)
         /\ ~Resolves(r.st, e)
         /\ Resolves(r.st, l)
         /\ InCount(r.st, l) = 0

\* The least set that holds the elements of S and every live connector with
\* an endpoint in the set.
RECURSIVE ClosureFrom(_, _)
ClosureFrom(st, S) ==
  LET T == S \cup {c \in LiveConnectors(st) : Elem(st, c).begin \in S \/ Elem(st, c).end \in S}
  IN IF T = S THEN S ELSE ClosureFrom(st, T)

\* C2 (P3): the elements that stop being live during erase_element(x) of a
\* live x are exactly x and the connectors transitively incident to it: no
\* connector left live has an erased endpoint, nothing outside is erased.
C2_EraseIsClosure ==
  \A x \in GraphSlots :
    Resolves(storage, x) =>
      LET r == sc_storage_element_free(storage, x)
      IN /\ ~r.hang
         /\ Live(storage) \ Live(r.st) = ClosureFrom(storage, {x})


\* C3: create_connector(t, b, e) with a directed type and live b and e, when
\* it succeeds, returns a connector whose begin is b and whose end is e, and
\* raises output_arcs_count(b) and input_arcs_count(e) by exactly one; when
\* b # e, input_arcs_count(b) and output_arcs_count(e) stay as they were.
C3_DirectedCreateCounters ==
  \A thread \in Threads, b \in GraphSlots, e \in GraphSlots :
    (Resolves(storage, b) /\ Resolves(storage, e)) =>
      LET r == sc_storage_arc_new(storage, thread, sc_type_arc_pos_const_perm, b, e)
      IN SC_ADDR_IS_NOT_EMPTY(r.addr) =>
           /\ ~r.hang
           /\ r.addr \notin Live(storage)
           /\ Resolves(r.st, r.addr)
           /\ sc_storage_get_arc_begin(r.st, r.addr) = [result |-> SC_RESULT_OK, addr |-> b]
           /\ sc_storage_get_arc_end(r.st, r.addr) = [result |-> SC_RESULT_OK, addr |-> e]
           /\ OutCount(r.st, b) = OutCount(storage, b) + 1
           /\ InCount(r.st, e) = InCount(storage, e) + 1
           /\ (b # e => /\ InCount(r.st, b) = InCount(storage, b)
                        /\ OutCount(r.st, e) = OutCount(storage, e))

\* A directed connector between two distinct live elements was just created,
\* and its begin already carried another output connector.
C3_Witness ==
  /\ last.op = "arc_new"
  /\ last.res = SC_RESULT_OK
  /\ Resolves(storage, last.addr)
  /\ ~IsEdge(storage, last.addr)
  /\ Elem(storage, last.addr).begin # Elem(storage, last.addr).end
  /\ Resolves(storage, Elem(storage, last.addr).begin)
  /\ Resolves(storage, Elem(storage, last.addr).end)
  /\ OutCount(storage, Elem(storage, last.addr).begin) = 2
  /\ InCount(storage, Elem(storage, last.addr).end) = 1

\* The element at a is live, of the given type, with zero counters and
\* empty incidence lists.
FreshElement(st, a, type) ==
  /\ Resolves(st, a)
  /\ sc_storage_get_element_type(st, a) = [result |-> SC_RESULT_OK, type |-> type]
  /\ OutCount(st, a) = 0
  /\ InCount(st, a) = 0
  /\ Elem(st, a).first_out_arc = SC_ADDR_EMPTY
  /\ Elem(st, a).first_in_arc = SC_ADDR_EMPTY

\* The subtype bits create_node and create_link are called with.
SubtypeBits == {0, sc_type_const, sc_type_var}

\* C4: create_node(t) and create_link(t), when they succeed, return a live
\* element whose type is exactly NODE | t, respectively LINK | t, with both
\* arc counters 0 and empty incidence lists, also when the slot is recycled.
C4_CreateNodeLinkFresh ==
  \A thread \in Threads, t \in SubtypeBits :
    LET n == sc_storage_node_new(storage, thread, t)
        l == sc_storage_link_new(storage, thread, t)
    IN /\ SC_ADDR_IS_NOT_EMPTY(n.addr) =>
            (~n.hang /\ n.addr \notin Live(storage)
             /\ FreshElement(n.st, n.addr, sc_type_node + t))
       /\ SC_ADDR_IS_NOT_EMPTY(l.addr) =>
            (~l.hang /\ l.addr \notin Live(storage)
             /\ FreshElement(l.st, l.addr, sc_type_link + t))

\* A node was just created in the slot that the first operation of the run
\* had allocated: a recycled slot.
C4_Witness ==
  /\ last.op = "node_new"
  /\ last.res = SC_RESULT_OK
  /\ steps >= 3
  /\ last.addr = MakeAddr(1, 1)
  /\ FreshElement(storage, last.addr, sc_type_node + sc_type_const)


\* The addresses a walk from addr over next_out_arc (side "out") or
\* next_in_arc (side "in") visits, in order; a walk that does not end within
\* fuel steps is cut there, longer than any list without a repetition.
RECURSIVE ListWalk(_, _, _, _)
ListWalk(st, addr, side, fuel) ==
  IF SC_ADDR_IS_EMPTY(addr) \/ fuel = 0 THEN <<>>
  ELSE <<addr>> \o ListWalk(st, NextOf(Elem(st, addr), side), side, fuel - 1)

\* The live connectors that have E on their out side, and on their in side:
\* an undirected edge between distinct elements has both on both sides.
OutSide(st, E) ==
  {c \in LiveConnectors(st) :
     \/ Elem(st, c).begin = E
     \/ IsEdge(st, c) /\ Elem(st, c).end = E}
InSide(st, E) ==
  {c \in LiveConnectors(st) :
     \/ Elem(st, c).end = E
     \/ IsEdge(st, c) /\ Elem(st, c).begin = E}

\* C5 (I3, P1): for every live element E the walk over first_out_arc and
\* next_out_arc visits exactly the live connectors with E on their out side,
\* each once, and output_arcs_count(E) is the number visited; the same for
\* first_in_arc, next_in_arc and input_arcs_count.
C5_IncidenceLists ==
  \A E \in Live(storage) :
    LET outs == ListWalk(storage, Elem(storage, E).first_out_arc, "out", ChainFuel)
        ins == ListWalk(storage, Elem(storage, E).first_in_arc, "in", ChainFuel)
    IN /\ SeqRange(outs) = OutSide(storage, E)
       /\ Len(outs) = Cardinality(OutSide(storage, E))
       /\ OutCount(storage, E) = Len(outs)
       /\ SeqRange(ins) = InSide(storage, E)
       /\ Len(ins) = Cardinality(InSide(storage, E))
       /\ InCount(storage, E) = Len(ins)

\* C6 (P2): erase_element of a live connector c from b to e that no
\* connector is incident to, b and e live, takes back what its creation added:
\* output_arcs_count(b) and input_arcs_count(e) are one lower, and every
\* other live element stays live with the counters it had.
C6_EraseConnectorRestoresCounters ==
  \A c \in GraphSlots :
    (/\ Resolves(storage, c)
     /\ IsConnector(storage, c)
     /\ IncidentTo(storage, c) = {}
     /\ Resolves(storage, Elem(storage, c).begin)
     /\ Resolves(storage, Elem(storage, c).end)) =>
      LET b == Elem(storage, c).begin
          e == Elem(storage, c).end
          r == sc_storage_element_free(storage, c)
      IN /\ r.result = SC_RESULT_OK
         /\ ~r.hang
         /\ OutCount(r.st, b) = OutCount(storage, b) - 1
         /\ InCount(r.st, e) = InCount(storage, e) - 1
         /\ \A x \in Live(storage) \ {b, e, c} :
              /\ Resolves(r.st, x)
              /\ OutCount(r.st, x) = OutCount(storage, x)
              /\ InCount(r.st, x) = InCount(storage, x)


\* The live undirected edges between b and e, in either direction.
EdgesBetween(st, b, e) ==
  {c \in LiveConnectors(st) :
     /\ IsEdge(st, c)
     /\ \/ Elem(st, c).begin = b /\ Elem(st, c).end = e
        \/ Elem(st, c).begin = e /\ Elem(st, c).end = b}

\* The four counters of b and e.
FourCounters(st, b, e) ==
  <<OutCount(st, b), InCount(st, b), OutCount(st, e), InCount(st, e)>>

\* C7, creation: an undirected edge created between two distinct live elements
\* b and e raises output_arcs_count and input_arcs_count of both by one.
C7_EdgeCreateCounters ==
  \A thread \in Threads, b \in GraphSlots, e \in GraphSlots :
    (b # e /\ Resolves(storage, b) /\ Resolves(storage, e)) =>
      LET r == sc_storage_arc_new(storage, thread, sc_type_edge_common_const, b, e)
          old == FourCounters(storage, b, e)
      IN SC_ADDR_IS_NOT_EMPTY(r.addr) =>
           FourCounters(r.st, b, e) = <<old[1] + 1, old[2] + 1, old[3] + 1, old[4] + 1>>

\* C7, erase: erasing an undirected edge y between two distinct live elements
\* b and e, no connector incident to y, lowers the four counters by one.
C7_EdgeEraseCounters ==
  \A y \in GraphSlots :
    (/\ Resolves(storage, y) /\ IsEdge(storage, y) /\ IncidentTo(storage, y) = {}
     /\ Elem(storage, y).begin # Elem(storage, y).end
     /\ Resolves(storage, Elem(storage, y).begin)
     /\ Resolves(storage, Elem(storage, y).end)) =>
      LET b == Elem(storage, y).begin
          e == Elem(storage, y).end
          r == sc_storage_element_free(storage, y)
          old == FourCounters(storage, b, e)
      IN /\ r.result = SC_RESULT_OK /\ ~r.hang
         /\ FourCounters(r.st, b, e) = <<old[1] - 1, old[2] - 1, old[3] - 1, old[4] - 1>>

\* C7, iterators: when the erase of an undirected edge between two distinct
\* live elements b and e leaves no edge between them, the F-A-F iterators
\* (b, edge type, e) and (e, edge type, b) yield nothing.
C7_EdgeEraseIterators ==
  \A y \in GraphSlots :
    (/\ Resolves(storage, y) /\ IsEdge(storage, y) /\ IncidentTo(storage, y) = {}
     /\ Elem(storage, y).begin # Elem(storage, y).end
     /\ Resolves(storage, Elem(storage, y).begin)
     /\ Resolves(storage, Elem(storage, y).end)) =>
      LET b == Elem(storage, y).begin
          e == Elem(storage, y).end
          r == sc_storage_element_free(storage, y)
      IN (~r.hang /\ EdgesBetween(r.st, b, e) = {}) =>
           /\ sc_iterator3_f_a_f(r.st, b, sc_type_edge_common_const, e).results = <<>>
           /\ sc_iterator3_f_a_f(r.st, e, sc_type_edge_common_const, b).results = <<>>

\* C7: an undirected edge between two distinct live elements counts on all
\* four counters when created and when erased, and once all edges between
\* the two are erased the F-A-F iterators over them yield nothing.
C7_UndirectedEdge ==
  /\ C7_EdgeCreateCounters
  /\ C7_EdgeEraseCounters
  /\ C7_EdgeEraseIterators


\* Every segment the storage may hold exists, is fully engaged and has no
\* released slot.
StoreFull(st) ==
  /\ st.segments_count = st.max_segments_count
  /\ \A i \in 1..st.max_segments_count :
       /\ st.segments[i].num # 0
       /\ st.segments[i].last_engaged_offset + 1 = SC_SEGMENT_ELEMENTS_COUNT
       /\ st.segments[i].last_released_offset = 0

\* The slots of the segments the storage may hold that hold no live element.
FreeSlots(st) == {a \in SlotAddrs(st.max_segments_count) : ~Resolves(st, a)}

\* C8: a create returns the empty address only when segments_count is
\* max_segments, every segment is fully engaged and none has a released slot;
\* whenever some slot is free, the create succeeds.
C8_FullOnlyWhenFull ==
  \A thread \in Threads :
    LET r == sc_storage_node_new(storage, thread, sc_type_const)
    IN /\ ~r.hang
       /\ SC_ADDR_IS_EMPTY(r.addr) => (StoreFull(storage) /\ FreeSlots(storage) = {})
       /\ FreeSlots(storage) # {} => (SC_ADDR_IS_NOT_EMPTY(r.addr) /\ Resolves(r.st, r.addr))


\* The recycling scenario has run to its end: the N elements are erased and
\* N creations have followed.
RecycleDone ==
  /\ scenario.phase = "again"
  /\ Len(scenario.again) = Len(scenario.made)

\* The N elements of the scenario all lay in the segment the thread was bound
\* to when the last of them was erased.
RecycleInBoundSegment ==
  \A i \in 1..Len(scenario.made) : scenario.made[i].seg = scenario.bound

\* C9 as stated (P8): after a thread creates N elements and erases all of
\* them, its next N creates all succeed and segments_count is not larger than
\* it was before those N creates.
C9_RecyclingNeverGrows ==
  RecycleDone =>
    /\ \A i \in 1..Len(scenario.again) : SC_ADDR_IS_NOT_EMPTY(scenario.again[i])
    /\ storage.segments_count <= scenario.count

\* C9 amended: the next N creates all succeed, and when the N erased elements
\* all lay in the segment the thread is bound to, they return exactly the
\* erased addresses and segments_count stays as it was.
C9_RecyclingInBoundSegment ==
  RecycleDone =>
    /\ \A i \in 1..Len(scenario.again) : SC_ADDR_IS_NOT_EMPTY(scenario.again[i])
    /\ RecycleInBoundSegment =>
         /\ SeqRange(scenario.again) = SeqRange(scenario.made)
         /\ storage.segments_count = scenario.count

\* The scenario has run to its end with two elements of one segment, after
\* earlier creations and erases.
C9_Witness ==
  /\ RecycleDone
  /\ Len(scenario.made) = 2
  /\ RecycleInBoundSegment
  /\ steps >= 2
  /\ SeqRange(scenario.again) = SeqRange(scenario.made)


\* The live elements of st are the live elements of st2, with the same fields.
LiveUnchanged(st, st2) ==
  /\ Live(st2) = Live(st)
  /\ \A x \in Live(st) : Elem(st2, x) = Elem(st, x)

\* sc_storage_arc_new with a as the begin or as the end returns the empty
\* address and changes no live element.
ConnectorRefused(st, a) ==
  \A thread \in Threads, type \in ConnectorTypes, x \in GraphSlots \cup {a} :
    LET r1 == sc_storage_arc_new(st, thread, type, a, x)
        r2 == sc_storage_arc_new(st, thread, type, x, a)
    IN /\ SC_ADDR_IS_EMPTY(r1.addr) /\ LiveUnchanged(st, r1.st)
       /\ SC_ADDR_IS_EMPTY(r2.addr) /\ LiveUnchanged(st, r2.st)

\* C10: for an address that does not resolve to a live element, is_element is
\* false, erase_element, change_subtype and the link content calls return an
\* error, get_arc_begin and get_arc_end return the empty address,
\* create_connector with it as an endpoint returns empty, both arc counters
\* read 0, and no call changes the live elements.
C10_UnresolvedAddress ==
  \A a \in Addrs :
    ~Resolves(storage, a) =>
      /\ ~sc_storage_is_element(storage, a)
      /\ sc_storage_element_free(storage, a).result # SC_RESULT_OK
      /\ sc_storage_element_free(storage, a).st = storage
      /\ \A type \in {sc_type_node + sc_type_const, sc_type_arc_pos_const_perm} :
           /\ sc_storage_change_element_subtype(storage, a, type).result # SC_RESULT_OK
           /\ sc_storage_change_element_subtype(storage, a, type).st = storage
      /\ LinkContentResultUnresolved(storage, a) # SC_RESULT_OK
      /\ sc_storage_get_arc_begin(storage, a).result # SC_RESULT_OK
      /\ sc_storage_get_arc_begin(storage, a).addr = SC_ADDR_EMPTY
      /\ sc_storage_get_arc_end(storage, a).result # SC_RESULT_OK
      /\ sc_storage_get_arc_end(storage, a).addr = SC_ADDR_EMPTY
      /\ OutCount(storage, a) = 0
      /\ InCount(storage, a) = 0
      /\ ConnectorRefused(storage, a)

\* The streams and FS-memory outcomes the content operations are called with.
Streams == {Stream(get_data, string) : get_data \in BOOLEAN, string \in Strings}

\* C11: on a live element that is not a connector, get_arc_begin, get_arc_end
\* and get_arc_info return ERROR_ELEMENT_IS_NOT_CONNECTOR with empty addresses;
\* on a live element that is not a link, set_link_content (given a stream
\* whose data can be read) returns ERROR_ELEMENT_IS_NOT_LINK and
\* get_link_content returns an error with the null stream; neither calls
\* FS-memory nor emits an event.
C11_WrongKind ==
  \A a \in Live(storage) :
    /\ ~IsConnector(storage, a) =>
         /\ sc_storage_get_arc_begin(storage, a)
              = [result |-> SC_RESULT_ERROR_ELEMENT_IS_NOT_CONNECTOR, addr |-> SC_ADDR_EMPTY]
         /\ sc_storage_get_arc_end(storage, a)
              = [result |-> SC_RESULT_ERROR_ELEMENT_IS_NOT_CONNECTOR, addr |-> SC_ADDR_EMPTY]
         /\ sc_storage_get_arc_info(storage, a)
              = [result |-> SC_RESULT_ERROR_ELEMENT_IS_NOT_CONNECTOR,
                 begin_addr |-> SC_ADDR_EMPTY, end_addr |-> SC_ADDR_EMPTY]
    /\ ~IsLink(storage, a) =>
         /\ \A string \in Strings, fs_ok \in BOOLEAN :
              sc_storage_set_link_content(storage, a, Stream(TRUE, string), fs_ok)
                = [result |-> SC_RESULT_ERROR_ELEMENT_IS_NOT_LINK, calls |-> <<>>]
         /\ \A fs_ok \in BOOLEAN :
              LET r == sc_storage_get_link_content(storage, fs_memory, a, fs_ok)
              IN /\ r.result \notin {SC_RESULT_OK, SC_RESULT_NO}
                 /\ r.stream = NullStream
                 /\ r.calls = <<>>

\* set_link_content has just been refused on a live node after a link was
\* given content, and FS-memory and the events are as that left them.
C11_Witness ==
  /\ last.op = "set_link_content"
  /\ last.res = SC_RESULT_ERROR_ELEMENT_IS_NOT_LINK
  /\ Resolves(storage, last.addr)
  /\ IsNode(storage, last.addr)
  /\ fs_memory # <<>>

\* C12: change_subtype(addr, new_type) on a live element succeeds iff
\* new_type and the element's type agree under sc_type_element_mask; on
\* success get_type returns new_type, otherwise the call returns
\* ERROR_INVALID_PARAMS and the type is unchanged; nothing but the type of
\* that element ever changes.
C12_ChangeSubtype ==
  \A a \in Live(storage), type \in SubtypeArgs :
    LET r == sc_storage_change_element_subtype(storage, a, type)
        same_kind == BitAnd(type, sc_type_element_mask)
                       = BitAnd(Elem(storage, a).type, sc_type_element_mask)
    IN /\ (r.result = SC_RESULT_OK) <=> same_kind
       /\ same_kind =>
            sc_storage_get_element_type(r.st, a) = [result |-> SC_RESULT_OK, type |-> type]
       /\ ~same_kind =>
            /\ r.result = SC_RESULT_ERROR_INVALID_PARAMS
            /\ sc_storage_get_element_type(r.st, a)
                 = sc_storage_get_element_type(storage, a)
       /\ [r.st EXCEPT !.segments[a.seg].elements[a.offset].type = Elem(storage, a).type]
            = storage

\* change_subtype has just turned a constant node with an outgoing connector
\* into a variable node.
C12_Witness ==
  /\ last.op = "change_subtype"
  /\ last.res = SC_RESULT_OK
  /\ Resolves(storage, last.addr)
  /\ Elem(storage, last.addr).type = sc_type_node + sc_type_var
  /\ Elem(storage, last.addr).output_arcs_count > 0

\* The CONTENT_CHANGED emits among the calls of an operation.
ContentChanged(calls) ==
  {i \in 1..Len(calls) : calls[i].call = "emit" /\ calls[i].type = SC_EVENT_CONTENT_CHANGED}

\* C13: on a live link, when FS-memory reports a failure for link_string,
\* set_link_content returns ERROR or ERROR_IO, never OK, and emits no
\* CONTENT_CHANGED; when it reports success, set_link_content returns OK and
\* emits exactly one CONTENT_CHANGED for the link.
C13_FsMemoryFailure ==
  \A a \in Live(storage), string \in Strings :
    IsLink(storage, a) =>
      LET failed == sc_storage_set_link_content(storage, a, Stream(TRUE, string), FALSE)
          done == sc_storage_set_link_content(storage, a, Stream(TRUE, string), TRUE)
      IN /\ failed.result \in {SC_RESULT_ERROR, SC_RESULT_ERROR_IO}
         /\ ContentChanged(failed.calls) = {}
         /\ done.result = SC_RESULT_OK
         /\ Cardinality(ContentChanged(done.calls)) = 1
         /\ \A i \in ContentChanged(done.calls) : done.calls[i].el = a

\* The address sc_storage_allocate_new_element hands out next in st, the empty
\* address when it finds no slot.
NextSlot(st, thread) ==
  LET a == sc_storage_allocate_new_element(st, thread)
  IN IF a.element THEN a.addr ELSE SC_ADDR_EMPTY

\* sc_storage_arc_new(type, b, e) fails cleanly in st: it returns the empty
\* address, the slot it allocated is not live and heads the free list of its
\* segment, no live element changes and no event is emitted.
FailsCleanly(st, thread, type, b, e) ==
  LET r == sc_storage_arc_new(st, thread, type, b, e)
      slot == NextSlot(st, thread)
  IN /\ ~r.hang
     /\ SC_ADDR_IS_EMPTY(r.addr)
     /\ LiveUnchanged(st, r.st)
     /\ r.emits = <<>>
     /\ SC_ADDR_IS_NOT_EMPTY(slot) =>
          /\ ~Resolves(r.st, slot)
          /\ r.st.segments[slot.seg].last_released_offset = slot.offset

\* C14: create_connector with an empty begin or end returns empty without
\* allocating a slot; with a non-empty endpoint that resolves to no live
\* element it returns empty, the slot it allocated is returned to the free
\* list of its segment, no incidence list or counter of a live element
\* changes and no ADD_OUTPUT_ARC or ADD_INPUT_ARC event is emitted.
C14_ConnectorFailsCleanly ==
  \A thread \in Threads, type \in ConnectorTypes, b \in Addrs, e \in Addrs :
    /\ (SC_ADDR_IS_EMPTY(b) \/ SC_ADDR_IS_EMPTY(e)) =>
         sc_storage_arc_new(storage, thread, type, b, e)
           = [st |-> storage, addr |-> SC_ADDR_EMPTY, hang |-> FALSE, emits |-> <<>>]
    /\ (/\ SC_ADDR_IS_NOT_EMPTY(b) /\ SC_ADDR_IS_NOT_EMPTY(e)
        /\ (~Resolves(storage, b) \/ ~Resolves(storage, e))) =>
         FailsCleanly(storage, thread, type, b, e)


\* More calls of next than an iterator over a store of this size can answer
\* with SC_TRUE unless it repeats itself.
CollectFuel == MaxSegments * SC_SEGMENT_ELEMENTS_COUNT + 1

\* The triples the calls of sc_iterator3_next on it return until one returns
\* SC_FALSE; hang is TRUE when a call never returns or no call returns
\* SC_FALSE within CollectFuel calls.
RECURSIVE CollectTriples(_, _, _, _)
CollectTriples(st, it, uninit, fuel) ==
  LET r == sc_iterator3_next(st, it, uninit)
  IN IF r.hang \/ fuel = 0 THEN [triples |-> <<>>, hang |-> TRUE]
     ELSE IF ~r.result THEN [triples |-> <<>>, hang |-> FALSE]
     ELSE LET rest == CollectTriples(st, r.it, uninit, fuel - 1)
          IN [triples |-> <<r.it.results>> \o rest.triples, hang |-> rest.hang]

\* The triples as a set, and whether none of them is returned twice.
TripleSet(c) == {c.triples[i] : i \in DOMAIN c.triples}
NoRepeat(c) == \A i, j \in DOMAIN c.triples : c.triples[i] = c.triples[j] => i = j

\* (filter & type) == filter
Matches(type, filter) == BitAnd(filter, type) = filter

\* (begin, connector, end) of a connector.
TripleOf(st, e) == <<Elem(st, e).begin, e, Elem(st, e).end>>

\* C15: in a quiescent store, for a live x and filters t, T, the calls of
\* next on the F-A-A iterator (x, t, T) until it returns false yield exactly
\* the pairs (connector e, target) with e.begin = x, (t & e.type) = t and
\* (T & type(e.end)) = T, each live connector once and nothing else.
C15_FAA ==
  \A x \in LiveSlots, t \in IteratorFilters, T \in IteratorFilters, uninit \in UninitTypes :
    LET it == sc_iterator3_new(storage, "f_a_a", AddrParam(x), TypeParam(t), TypeParam(T))
        c == CollectTriples(storage, it, uninit, CollectFuel)
    IN /\ ~it.null
       /\ ~c.hang
       /\ NoRepeat(c)
       /\ TripleSet(c) =
            {TripleOf(storage, e) : e \in
               {e \in LiveConnectors(storage) :
                  /\ Elem(storage, e).begin = x
                  /\ Matches(Elem(storage, e).type, t)
                  /\ Resolves(storage, Elem(storage, e).end)
                  /\ Matches(Elem(storage, Elem(storage, e).end).type, T)}}


\* The live connectors on the in-list of y: those the walk from
\* y.first_in_arc over next_in_arc visits.
InList(st, y) ==
  LET walk == ListWalk(st, Elem(st, y).first_in_arc, "in", ChainFuel)
  IN {walk[i] : i \in DOMAIN walk} \cap LiveConnectors(st)

\* C16: in a quiescent store the A-A-F iterator (T, t, y) yields exactly the
\* live connectors in y's in-list whose type matches t and whose begin
\* element's type matches T, and the F-A-F iterator (x, t, y) yields exactly
\* the live connectors in y's in-list with begin = x and type matching t;
\* each result triple is (connector.begin, connector, y).
C16_AAF_FAF ==
  \A y \in LiveSlots, t \in IteratorFilters :
    /\ \A T \in IteratorFilters :
         LET it == sc_iterator3_new(storage, "a_a_f", TypeParam(T), TypeParam(t), AddrParam(y))
             c == CollectTriples(storage, it, 0, CollectFuel)
         IN /\ ~it.null
            /\ ~c.hang
            /\ NoRepeat(c)
            /\ TripleSet(c) =
                 {<<Elem(storage, e).begin, e, y>> : e \in
                    {e \in InList(storage, y) :
                       /\ Matches(Elem(storage, e).type, t)
                       /\ Resolves(storage, Elem(storage, e).begin)
                       /\ Matches(Elem(storage, Elem(storage, e).begin).type, T)}}
    /\ \A x \in LiveSlots :
         LET it == sc_iterator3_new(storage, "f_a_f", AddrParam(x), TypeParam(t), AddrParam(y))
             c == CollectTriples(storage, it, 0, CollectFuel)
         IN /\ ~it.null
            /\ ~c.hang
            /\ NoRepeat(c)
            /\ TripleSet(c) =
                 {<<Elem(storage, e).begin, e, y>> : e \in
                    {e \in InList(storage, y) :
                       /\ Elem(storage, e).begin = x
                       /\ Matches(Elem(storage, e).type, t)}}


\* Whether the claim lets the fixed-connector iterator it yield its triple.
FixedYields(st, it) ==
  /\ it.type \in {"f_f_a", "f_f_f"} => it.params[1].addr = Elem(st, it.params[2].addr).begin
  /\ it.type \in {"a_f_f", "f_f_f"} => it.params[3].addr = Elem(st, it.params[2].addr).end

\* C17: a fixed-connector iterator yields at most one triple: A-F-A yields
\* (conn.begin, conn, conn.end) on its first next; F-F-A yields it iff
\* conn.begin is the first parameter, A-F-F iff conn.end is the third, F-F-F
\* iff both; the second and every later next returns false.
C17_FixedConnector ==
  \A type \in {"a_f_a", "f_f_a", "a_f_f", "f_f_f"},
     p1 \in IteratorParams, p2 \in IteratorParams, p3 \in IteratorParams :
    LET it == sc_iterator3_new(storage, type, p1, p2, p3)
        first == sc_iterator3_next(storage, it, 0)
        second == sc_iterator3_next(storage, first.it, 0)
        third == sc_iterator3_next(storage, second.it, 0)
    IN ~it.null =>
         /\ ~first.hang /\ ~second.hang /\ ~third.hang
         /\ first.result = FixedYields(storage, it)
         /\ first.result =>
              /\ sc_iterator3_value(first.it, 0) = Elem(storage, p2.addr).begin
              /\ sc_iterator3_value(first.it, 1) = p2.addr
              /\ sc_iterator3_value(first.it, 2) = Elem(storage, p2.addr).end
         /\ ~second.result
         /\ ~third.result

\* An F-F-A iterator over a connector between two distinct elements has
\* yielded its triple and a later next has returned false.
C17_Witness ==
  /\ ~iterator.null
  /\ iterator.type = "f_f_a"
  /\ last.op = "iterator3_next"
  /\ last.res = SC_FALSE
  /\ IsConnector(storage, iterator.params[2].addr)
  /\ iterator.results = TripleOf(storage, iterator.params[2].addr)
  /\ iterator.results[1] = iterator.params[1].addr
  /\ iterator.results[1] # iterator.results[3]


\* The endpoint of connector e that is not x: begin if x is its end, else end.
OtherEndpoint(st, e, x) ==
  IF x = Elem(st, e).end THEN Elem(st, e).begin ELSE Elem(st, e).end

\* C18: when a chain iterator pinned on x meets a live undirected edge, the
\* element it returns in the slot that is not pinned is the other endpoint
\* of the edge: F-A-A from x returns it as the third value, A-A-F to x as the
\* first.
C18_EdgeOtherEndpoint ==
  \A x \in LiveSlots, t \in IteratorFilters, T \in IteratorFilters :
    /\ LET it == sc_iterator3_new(storage, "f_a_a", AddrParam(x), TypeParam(t), TypeParam(T))
           c == CollectTriples(storage, it, 0, CollectFuel)
       IN \A i \in DOMAIN c.triples :
            (Resolves(storage, c.triples[i][2]) /\ IsEdge(storage, c.triples[i][2])) =>
              c.triples[i][3] = OtherEndpoint(storage, c.triples[i][2], x)
    /\ LET it == sc_iterator3_new(storage, "a_a_f", TypeParam(T), TypeParam(t), AddrParam(x))
           c == CollectTriples(storage, it, 0, CollectFuel)
       IN \A i \in DOMAIN c.triples :
            (Resolves(storage, c.triples[i][2]) /\ IsEdge(storage, c.triples[i][2])) =>
              c.triples[i][1] = OtherEndpoint(storage, c.triples[i][2], x)


\* The last call was a sc_iterator3_next on the iterator held that returned
\* SC_FALSE.
NextReturnedFalse ==
  /\ ~hung
  /\ ~iterator.null
  /\ last.op = "iterator3_next"
  /\ last.res = SC_FALSE

\* C19: for every iterator pattern, once next has returned false the
\* iterator is finished, value(0), value(1) and value(2) are all the empty
\* address, and every later next returns false.
C19_Exhausted ==
  NextReturnedFalse =>
    /\ iterator.finished
    /\ \A vid \in 0..2 : SC_ADDR_IS_EMPTY(sc_iterator3_value(iterator, vid))
    /\ \A uninit \in UninitTypes :
         sc_iterator3_next(storage, iterator, uninit) = NextResult(iterator, FALSE)


\* The subscription behind handle event is registered: the event is on the
\* list the events table keeps for its element.
Registered(ev, event) ==
  /\ SC_ADDR_IS_NOT_EMPTY(ev.objects[event].element)
  /\ \E i \in DOMAIN sc_hash_table_get(ev.events_table, TABLE_KEY(ev.objects[event].element)) :
       sc_hash_table_get(ev.events_table, TABLE_KEY(ev.objects[event].element))[i] = event

\* The dispatch records of the emission queue made for one handle, in order.
RecordsFor(ev, event) == SelectSeq(ev.emission_queue, LAMBDA r : r.event = event)

\* The kinds and the addresses emit is probed with.
EventKinds == SC_EVENT_ADD_OUTPUT_ARC..SC_EVENT_CONTENT_CHANGED
EmitAddrs == SlotAddrs(GraphSegments) \cup {SC_ADDR_EMPTY}

\* Every emit(el, type, edge, other_el) made now adds one dispatch record for
\* each registered subscription on (el, type) and none for the others.
EmitEnqueuesOnePerSubscription ==
  \A el \in EmitAddrs, type \in EventKinds, edge \in {MakeAddr(2, 1)}, other_el \in {MakeAddr(2, 2)} :
    \A event \in DOMAIN events.objects :
      Registered(events, event) =>
        RecordsFor(sc_event_emit_impl(events, el, type, edge, other_el), event) =
          RecordsFor(events, event) \o
            (IF events.objects[event].element = el /\ events.objects[event].type = type
             THEN <<[event |-> event, edge |-> edge, other_el |-> other_el]>>
             ELSE <<>>)

\* A step that creates a connector with begin n adds exactly one record, for
\* that connector, to every registered ADD_OUTPUT_ARC subscription on n.
ConnectorAddsOneRecord ==
  \A event \in DOMAIN events.objects :
    (/\ Registered(events, event)
     /\ events.objects[event].type = SC_EVENT_ADD_OUTPUT_ARC
     /\ steps' = steps + 1
     /\ last'.op = "arc_new"
     /\ last'.res = SC_RESULT_OK
     /\ Elem(storage', last'.addr).begin = events.objects[event].element) =>
      RecordsFor(events', event) =
        Append(RecordsFor(events, event),
               [event |-> event, edge |-> last'.addr,
                other_el |-> Elem(storage', last'.addr).end])

\* C20: for every subscription (addr, kind), each emit(addr, kind, ...) made
\* while it is registered enqueues exactly one dispatch record for it and
\* emits with another address or kind enqueue none; so after a subscription
\* to ADD_OUTPUT_ARC on n, the creation of k outgoing connectors from n
\* leaves exactly k records for that handle, one per connector.
C20_Dispatch ==
  /\ []EmitEnqueuesOnePerSubscription
  /\ [][ConnectorAddsOneRecord]_vars

\* A registered ADD_OUTPUT_ARC subscription on n holds two records, one for
\* each of two live connectors that begin at n.
C20_Witness ==
  \E event \in DOMAIN events.objects :
    /\ Registered(events, event)
    /\ events.objects[event].type = SC_EVENT_ADD_OUTPUT_ARC
    /\ Len(RecordsFor(events, event)) = 2
    /\ RecordsFor(events, event)[1].edge # RecordsFor(events, event)[2].edge
    /\ \A i \in 1..2 :
         /\ Resolves(storage, RecordsFor(events, event)[i].edge)
         /\ Elem(storage, RecordsFor(events, event)[i].edge).begin
              = events.objects[event].element


\* The events claimed for a successful create_connector(type, b, e) that
\* returns new, in the order of emission.
ConnectorEvents(type, b, e, new) ==
  <<EmitCall(b, SC_EVENT_ADD_OUTPUT_ARC, new, e),
    EmitCall(e, SC_EVENT_ADD_INPUT_ARC, new, b)>>
    \o IF BitAnd(type, sc_type_edge_common) = sc_type_edge_common /\ b # e
       THEN <<EmitCall(e, SC_EVENT_ADD_OUTPUT_ARC, new, b),
              EmitCall(b, SC_EVENT_ADD_INPUT_ARC, new, e)>>
       ELSE <<>>

\* In st the connector new is at the head of the out-list of b and of the
\* in-list of e, with the counters of before raised by one.
LinkedAtHead(before, st, b, e, new) ==
  /\ Elem(st, b).first_out_arc = new
  /\ Elem(st, e).first_in_arc = new
  /\ OutCount(st, b) = OutCount(before, b) + 1
  /\ InCount(st, e) = InCount(before, e) + 1

RemovedConnectors(st, r) == {c \in LiveConnectors(st) : ~Resolves(r.st, c)}

\* The erase applied to ev added a dispatch record for handle event about
\* connector c.
NewRecord(ev, r, event, c) ==
  \E i \in (Len(ev.emission_queue) + 1)..Len(ApplyEventCalls(ev, r.calls).emission_queue) :
    /\ ApplyEventCalls(ev, r.calls).emission_queue[i].event = event
    /\ ApplyEventCalls(ev, r.calls).emission_queue[i].edge = c

\* Handle event is a subscription of kind type registered on el.
SubscribedOn(ev, event, el, type) ==
  /\ Registered(ev, event)
  /\ ev.objects[event].element = el
  /\ ev.objects[event].type = type

\* C22: for every connector c an erase_element call removes, each
\* REMOVE_OUTPUT_ARC subscription registered on c.begin when the call starts
\* and each REMOVE_INPUT_ARC subscription registered on c.end gets a dispatch
\* record for c, also when c.begin or c.end is the erased root.
C22_RemoveArcRecords ==
  \A addr \in LiveSlots :
    LET r == sc_storage_element_free(storage, addr)
    IN ~r.hang =>
         \A c \in RemovedConnectors(storage, r), event \in DOMAIN events.objects :
           /\ SubscribedOn(events, event, Elem(storage, c).begin, SC_EVENT_REMOVE_OUTPUT_ARC)
                => NewRecord(events, r, event, c)
           /\ SubscribedOn(events, event, Elem(storage, c).end, SC_EVENT_REMOVE_INPUT_ARC)
                => NewRecord(events, r, event, c)

\* The positions of the calls of r about element a that satisfy P.
CallsAt(r, P(_)) == {i \in DOMAIN r.calls : P(r.calls[i])}

\* The elements the erase with outcome r removes from st.
RemovedElements(st, r) == {a \in Live(st) : ~Resolves(r.st, a)}

\* The calls of the erase about element a are in the order of the removal
\* loop: the events of a connector, one REMOVE_ELEMENT, then the deleted call
\* that follows the freeing of the slot.
RemoveElementOrdered(st, ev, r, a) ==
  LET removes == CallsAt(r, LAMBDA c : c.call = "emit" /\ c.el = a
                                        /\ c.type = SC_EVENT_REMOVE_ELEMENT)
      arcs == CallsAt(r, LAMBDA c : c.call = "emit" /\ c.edge = a
                                     /\ c.type \in {SC_EVENT_REMOVE_OUTPUT_ARC,
                                                    SC_EVENT_REMOVE_INPUT_ARC})
      deleted == CallsAt(r, LAMBDA c : c.call = "deleted" /\ c.el = a)
  IN /\ Cardinality(removes) = 1
     /\ Cardinality(deleted) = 1
     /\ \A i \in removes : /\ \A j \in arcs : j < i
                           /\ \A j \in deleted : j = i + 1
     /\ Cardinality(arcs) = IF IsConnector(st, a) THEN 2 ELSE 0

\* C23: for every element an erase_element call removes, REMOVE_ELEMENT is
\* emitted exactly once, after the REMOVE_OUTPUT_ARC and REMOVE_INPUT_ARC
\* events of a connector and right before the slot is freed and the
\* subscriptions on the address are retired; every REMOVE_ELEMENT subscription
\* registered on the element gets exactly one record from the call.
C23_RemoveElementOnce ==
  \A addr \in LiveSlots :
    LET r == sc_storage_element_free(storage, addr)
    IN ~r.hang =>
         \A a \in RemovedElements(storage, r) :
           /\ RemoveElementOrdered(storage, events, r, a)
           /\ \A event \in DOMAIN events.objects :
                SubscribedOn(events, event, a, SC_EVENT_REMOVE_ELEMENT) =>
                  Len(RecordsFor(ApplyEventCalls(events, r.calls), event))
                    = Len(RecordsFor(events, event)) + 1

\* An erase removed a connector and a node, and a REMOVE_ELEMENT subscription
\* on each holds its record.
C23_Witness ==
  /\ last.op = "element_free" /\ last.res = SC_RESULT_OK
  /\ Len(events.objects) = 2
  /\ \A event \in {1, 2} :
       /\ events.objects[event].type = SC_EVENT_REMOVE_ELEMENT
       /\ ~Resolves(storage, events.objects[event].element)
       /\ Len(RecordsFor(events, event)) = 1
  /\ events.objects[1].element # events.objects[2].element
  /\ events.deletable_events = <<1, 2>> \/ events.deletable_events = <<2, 1>>

\* sc_event_destroy with outcome r did for handle event what destroying a
\* subscription is: detached, marked, the callback invoked once, the handle
\* put on the queue of deletable events, and no emit reaches it any more.
Destroyed(ev, r, event) ==
  /\ r.result = SC_RESULT_OK
  /\ \A key \in DOMAIN r.ev.events_table :
       \A i \in DOMAIN r.ev.events_table[key] : r.ev.events_table[key][i] # event
  /\ r.ev.objects[event].ref_count = SC_EVENT_REQUEST_DESTROY
  /\ r.delete_callback = 1
  /\ r.ev.deletable_events = Append(ev.deletable_events, event)
  /\ \A el \in EmitAddrs, type \in EventKinds :
       RecordsFor(sc_event_emit_impl(r.ev, el, type, MakeAddr(2, 1), MakeAddr(2, 2)), event)
         = RecordsFor(ev, event)

\* C24: for every handle subscribe returned and that is not destroyed yet,
\* destroy_event detaches the subscription, marks it destroy-requested,
\* invokes the delete callback exactly once and enqueues the handle on the
\* deletable queue, after which no emit makes a record for it; also when the
\* subscribed element has been erased.
C24_Destroy ==
  \A event \in DOMAIN events.objects :
    events.objects[event].ref_count # SC_EVENT_REQUEST_DESTROY =>
      Destroyed(events, sc_event_destroy(events, event), event)

\* The addresses resolution is probed with: every segment number up to one
\* past max_segments_count and every offset up to one past the capacity.
ProbeAddrs ==
  {MakeAddr(s, o) : s \in 0..(MaxSegments + 1), o \in 0..(SC_SEGMENT_ELEMENTS_COUNT + 1)}

\* The condition under which the resolution of addr is to succeed.
IsLiveAddr(st, addr) ==
  /\ 1 <= addr.seg /\ addr.seg <= st.segments_count
  /\ 1 <= addr.offset /\ addr.offset < SC_SEGMENT_ELEMENTS_COUNT
  /\ st.segments[addr.seg].num # 0
  /\ BitAnd(Elem(st, addr).access_levels, SC_ACCESS_LVL_ELEMENT_EXIST)
       = SC_ACCESS_LVL_ELEMENT_EXIST

\* C29: the resolution of an address returns OK exactly when the segment
\* number is in 1..segments_count, the offset in 1..capacity - 1, the segment
\* exists and the slot has ELEMENT_EXIST; otherwise it returns
\* ERROR_ADDR_IS_NOT_VALID, and it never reads outside the segment's array.
C29_Resolution ==
  \A addr \in ProbeAddrs, exist_outside \in BOOLEAN :
    LET r == sc_storage_get_element_by_addr(storage, addr, exist_outside)
    IN /\ ~r.outside
       /\ r.result = (IF IsLiveAddr(storage, addr) THEN SC_RESULT_OK
                      ELSE SC_RESULT_ERROR_ADDR_IS_NOT_VALID)

\* Some slot of the storage's segments holds no live element.
HasFreeSlot(st) ==
  \E a \in SlotAddrs(st.max_segments_count) : ~Resolves(st, a)

\* After an end_process, a new process that creates a node gets a live
\* element whenever a slot is free.
NextProcessCreates ==
  (~InProcess /\ ~hung /\ HasFreeSlot(storage)) =>
    \A thread \in Threads :
      LET r == sc_storage_node_new(sc_storage_start_new_process(storage, thread),
                                   thread, sc_type_const)
      IN /\ ~r.hang
         /\ SC_ADDR_IS_NOT_EMPTY(r.addr)
         /\ ~Resolves(storage, r.addr)
         /\ Resolves(r.st, r.addr)

\* An address that holds no live element becomes live only as the address a
\* creation returns.
LiveOnlyByCreation ==
  \A a \in AllSlots :
    (~Resolves(storage, a) /\ Resolves(storage', a)) =>
      /\ last'.op \in {"node_new", "arc_new"}
      /\ last'.addr = a

\* The element a successful erase was called for is not live after it.
ErasedNotLive ==
  (last'.op = "element_free" /\ last'.res = SC_RESULT_OK) =>
    ~Resolves(storage', last'.addr)

\* C28: with max_segments = 1, after any sequence of begin_process, creates,
\* erases, end_process the next begin_process and create returns a live
\* element as long as a slot of the segment is free, and the address of an
\* erased element is not live again until a creation returns it.
C28_UnboundSegmentUsable ==
  []NextProcessCreates /\ [][LiveOnlyByCreation /\ ErasedNotLive]_vars

\* A process ended with its segment fully engaged and one slot released by
\* an erase: the segment is unbound, heads the not-engaged chain and has a
\* free slot for the next process.
C28_Witness ==
  /\ last.op = "end_new_process"
  /\ storage.max_segments_count = 1
  /\ storage.segments[1].last_engaged_offset + 1 = SC_SEGMENT_ELEMENTS_COUNT
  /\ storage.segments[1].last_released_offset # 0
  /\ storage.last_not_engaged_segment_num = 1
  /\ \A thread \in Threads : storage.processes_segments_table[thread] = 0
  /\ HasFreeSlot(storage)

\* (I1) the first connector of a list of a live element is a live connector
\* with the element at that end, or at either end for an undirected edge.
FirstArcsWellFormed(st) ==
  \A el \in Live(st) :
    /\ SC_ADDR_IS_NOT_EMPTY(Elem(st, el).first_out_arc) =>
         LET a == Elem(st, el).first_out_arc
         IN /\ Resolves(st, a) /\ IsConnector(st, a)
            /\ Elem(st, a).begin = el \/ (IsEdge(st, a) /\ Elem(st, a).end = el)
    /\ SC_ADDR_IS_NOT_EMPTY(Elem(st, el).first_in_arc) =>
         LET a == Elem(st, el).first_in_arc
         IN /\ Resolves(st, a) /\ IsConnector(st, a)
            /\ Elem(st, a).end = el \/ (IsEdge(st, a) /\ Elem(st, a).begin = el)

\* (I2) the lists are doubly linked and no list pointer of a live connector
\* names a slot that holds no live element.
DoublyLinked(st) ==
  \A a \in LiveConnectors(st) :
    /\ SC_ADDR_IS_NOT_EMPTY(Elem(st, a).next_out_arc) =>
         /\ Resolves(st, Elem(st, a).next_out_arc)
         /\ Elem(st, Elem(st, a).next_out_arc).prev_out_arc = a
    /\ SC_ADDR_IS_NOT_EMPTY(Elem(st, a).next_in_arc) =>
         /\ Resolves(st, Elem(st, a).next_in_arc)
         /\ Elem(st, Elem(st, a).next_in_arc).prev_in_arc = a
    /\ SC_ADDR_IS_NOT_EMPTY(Elem(st, a).prev_out_arc) =>
         Resolves(st, Elem(st, a).prev_out_arc)
    /\ SC_ADDR_IS_NOT_EMPTY(Elem(st, a).prev_in_arc) =>
         Resolves(st, Elem(st, a).prev_in_arc)

\* C30: after any sequence of creations and erases, with directed arcs and
\* undirected edges, the incidence lists are well formed: (I1) and (I2) hold
\* and no list pointer names a freed slot.
C30_ListsWellFormed ==
  ~hung => FirstArcsWellFormed(storage) /\ DoublyLinked(storage)

\* Both threads have returned from their calls.
NotifyReturned == running.pc.notify = "done" /\ running.pc.other = "idle"

\* Every subscription ever made on the element is on the queue of deletable
\* events or on the list the table keeps for the element.
NoSubscriptionLost ==
  \A event \in 1..running.handles :
    \/ \E i \in DOMAIN running.deletable : running.deletable[i] = event
    \/ \E i \in DOMAIN ListNodes(running.nodes, running.head, Len(running.nodes)) :
         running.nodes[ListNodes(running.nodes, running.head, Len(running.nodes))[i]].data
           = event

\* C25: sc_event_notify_element_deleted is atomic with respect to concurrent
\* subscribe, destroy and emit on the same address: no thread walks a list
\* node another thread has freed, and once the calls have returned every
\* subscription is enqueued as deletable or still registered.
C25_NotifyAtomic ==
  /\ ~running.stale
  /\ NotifyReturned => NoSubscriptionLost

\* C26: while one thread walks an F-A-A iterator over a node's outgoing
\* connectors and another erases some of them, every connector address a
\* next() call yields is a live connector at the moment of the yield.
C26_YieldsLive ==
  (last.op = "iterator3_next" /\ last.res = SC_TRUE)
    => /\ Resolves(storage, sc_iterator3_value(iterator, 1))
       /\ BitAnd(Elem(storage, sc_iterator3_value(iterator, 1)).type, sc_type_arc_mask) # 0

\* The store after call (of thread) has run from st as one step, with the
\* number of creations that returned an element so far.
RaceApply(x, thread, call) ==
  IF call.kind = "node_new"
  THEN LET r == sc_storage_node_new(x.st, thread, sc_type_const)
       IN [st |-> r.st, created |-> x.created + (IF SC_ADDR_IS_EMPTY(r.addr) THEN 0 ELSE 1)]
  ELSE [st |-> sc_storage_element_free(x.st, call.addr).st, created |-> x.created]

\* What a store shows of a run, whatever addresses the allocator chose: the
\* number of live elements and the number of creations that returned one.
RaceSummary(x) ==
  [live |-> Cardinality({a \in AllSlots : Resolves(x.st, a)}), created |-> x.created]

\* The summary of the two calls run one after the other, first first.
RaceInOrder(first, second) ==
  RaceSummary(RaceApply(RaceApply([st |-> running.start, created |-> 0],
                                  first, running.call[first]),
                        second, running.call[second]))

RaceReturned == running.spec = "race" /\ \A t \in RaceThreads : running.pc[t] = "returned"

\* C27: two threads run one create or erase call each, on different nodes,
\* from a store in which the two calls run one after the other give the same
\* live elements in either order: every interleaving of the two calls ends
\* with these live elements too.
C27_Commute ==
  (RaceReturned /\ RaceInOrder(1, 2) = RaceInOrder(2, 1))
    => RaceSummary([st |-> storage,
                    created |-> Cardinality({t \in RaceThreads : running.created[t]})])
         = RaceInOrder(1, 2)

\* C36: every sc_storage_element_free on a store made by create and erase
\* operations returns: neither chain walk of its collection phase runs
\* without end.
C36_EraseTerminates == last.op = "element_free" => ~hung

\* The segments of the not-engaged chain of st, head first.
RECURSIVE ChainFrom(_, _, _)
ChainFrom(st, num, fuel) ==
  IF num = 0 \/ fuel = 0 THEN <<>>
  ELSE <<num>> \o ChainFrom(st, st.segments[num].elements[0].access_levels, fuel - 1)

ChainSeq(st) == ChainFrom(st, st.last_not_engaged_segment_num, MaxChainOps + 1)

\* C40: the not-engaged chain is a stack of segment numbers: a call of
\* sc_storage_end_new_process leaves it as it is or with the segment of the
\* calling thread on top of what it held, a creation leaves it as it is or
\* takes its top segment for the calling thread, and nothing else changes it.
C40_ChainIsStack ==
  [][/\ last'.op = "end_new_process" =>
          \/ ChainSeq(storage') = ChainSeq(storage)
          \/ \E t \in RaceThreads :
               /\ storage.processes_segments_table[t] # 0
               /\ ChainSeq(storage') = <<storage.processes_segments_table[t]>> \o ChainSeq(storage)
     /\ last'.op = "node_new" =>
          \/ ChainSeq(storage') = ChainSeq(storage)
          \/ /\ ChainSeq(storage) # <<>>
             /\ ChainSeq(storage') = Tail(ChainSeq(storage))
             /\ \E t \in RaceThreads :
                  storage'.processes_segments_table[t] = Head(ChainSeq(storage))
     /\ last'.op = "start_new_process" => ChainSeq(storage') = ChainSeq(storage)]_vars

\* C37: when two threads allocate and free at the same time, every address a
\* creation returns has an offset from 1 to SC_SEGMENT_ELEMENTS_COUNT - 1, and
\* the two threads are not given the same address.
C37_HandedOut ==
  running.spec = "race" =>
    \A t \in RaceThreads :
      (running.pc[t] = "returned" /\ running.created[t]) =>
        /\ running.addr[t].offset \in Offsets \ {0}
        /\ \A u \in RaceThreads \ {t} :
             (running.pc[u] = "returned" /\ running.created[u])
               => running.addr[u] # running.addr[t]


\* ------------------------------------------------- an erase, round by round
\* One thread runs sc_storage_element_free in the steps between which its
\* code holds no monitor: the collection phase (sc_storage.c:473-529), then
\* for each collected address the marking under the monitor of the address
\* (sc_storage.c:539-554), the unlinking, the emits and the free
\* (sc_storage.c:556-679) and sc_event_notify_element_deleted
\* (sc_storage.c:682).  Between the steps another thread creates nodes and
\* directed connectors, erases and subscribes, each as one call.  running
\* holds the erasing call: the addresses still on remove_queue, the position
\* in the round, the type read at the marking, and what the other thread
\* made since the collection: the addresses it created and did not erase
\* (fresh) and the events it registered on such addresses (fresh_events).
MaxEraseOps == 5

EraseConnectorTypes == {sc_type_arc_pos_const_perm}

EraseEventTypes == {SC_EVENT_ADD_OUTPUT_ARC}

Erasing == running.spec = "erase"

\* The record of what the other thread made, after one of its calls: created
\* is the address the call made (empty for none), st the storage it leaves,
\* event the handle it registered (0 for none).
Made(created, st, event) ==
  IF ~Erasing THEN running
  ELSE [running EXCEPT
          !.fresh = {a \in @ \cup ({created} \ {SC_ADDR_EMPTY}) : Resolves(st, a)},
          !.fresh_events =
             {h \in @ : Resolves(st, events.objects[h].element)}
               \cup (IF event # 0 /\ events'.objects[event].element \in running.fresh
                     THEN {event} ELSE {})]

EraseBudget == ~hung /\ steps < MaxEraseOps

\* sc_storage_node_new and sc_storage_arc_new, called by the other thread.
EraseCreated(op, r) ==
  /\ hung' = r.hang
  /\ storage' = IF r.hang THEN storage ELSE r.st
  /\ last' = [op |-> op, addr |-> r.addr,
              res |-> IF SC_ADDR_IS_EMPTY(r.addr) THEN SC_RESULT_ERROR ELSE SC_RESULT_OK]
  /\ steps' = steps + 1
  /\ events' = ApplyEventCalls(events, r.emits)
  /\ running' = Made(r.addr, storage', 0)
  /\ UNCHANGED <<scenario, fs_memory, iterator>>

EraseNodeNew(thread, type) ==
  /\ EraseBudget
  /\ \E r \in {sc_storage_node_new(storage, thread, type)} : EraseCreated("node_new", r)

EraseArcNew(thread, type, beg_addr, end_addr) ==
  /\ EraseBudget
  /\ \E r \in {sc_storage_arc_new(storage, thread, type, beg_addr, end_addr)} :
       EraseCreated("arc_new", r)

\* sc_event_new, called by the other thread.
EraseEventNew(el, type) ==
  /\ EraseBudget
  /\ Len(events.objects) < MaxEvents
  /\ \E r \in {sc_event_new(events, el, type)} :
       /\ events' = r.ev
       /\ last' = [op |-> "event_new", addr |-> el,
                   res |-> IF r.event = 0 THEN SC_RESULT_ERROR ELSE SC_RESULT_OK]
       /\ running' = Made(SC_ADDR_EMPTY, storage, r.event)
  /\ steps' = steps + 1
  /\ UNCHANGED <<storage, hung, scenario, fs_memory, iterator>>

\* sc_storage_element_free as one call of the other thread, while the first
\* thread is between two steps of its own.
EraseOther(addr) ==
  /\ EraseBudget
  /\ Erasing
  /\ \E r \in {sc_storage_element_free(storage, addr)} :
        /\ hung' = r.hang
        /\ storage' = r.st
        /\ last' = [op |-> "other_free", addr |-> addr, res |-> r.result]
        /\ events' = ApplyEventCalls(events, r.calls)
        /\ fs_memory' = ApplyFsCalls(fs_memory, r.calls)
        /\ running' = Made(SC_ADDR_EMPTY, r.st, 0)
  /\ steps' = steps + 1
  /\ UNCHANGED <<scenario, iterator>>

\* The entry and the collection phase of the erasing call
\* (sc_storage.c:454-532).
EraseCollect(addr) ==
  /\ EraseBudget
  /\ ~Erasing
  /\ Resolves(storage, addr)
  /\ \E q \in {Collect(storage, addr)} :
        /\ hung' = q.hang
        /\ running' = [spec |-> "erase", root |-> addr, remove_queue |-> q.remove_queue,
                       pc |-> "mark", type |-> 0, fresh |-> {}, fresh_events |-> {}]
  /\ last' = [op |-> "collect", addr |-> addr, res |-> SC_RESULT_OK]
  /\ steps' = steps + 1
  /\ UNCHANGED <<storage, scenario, events, fs_memory, iterator>>

\* The head of a round (sc_storage.c:536-554).
EraseMark ==
  /\ ~hung
  /\ Erasing
  /\ running.pc = "mark"
  /\ running.remove_queue # <<>>
  /\ \E k \in {MarkOne(storage, Head(running.remove_queue))} :
        /\ storage' = k.st
        /\ running' = IF k.marked
                      THEN [running EXCEPT !.pc = "finish", !.type = k.type]
                      ELSE [running EXCEPT !.remove_queue = Tail(@)]
  /\ last' = [op |-> "mark", addr |-> Head(running.remove_queue), res |-> SC_RESULT_OK]
  /\ UNCHANGED <<steps, hung, scenario, events, fs_memory, iterator>>

\* The unlinking, the emits and the free of a round (sc_storage.c:556-679).
EraseFinish ==
  /\ ~hung
  /\ Erasing
  /\ running.pc = "finish"
  /\ \E r \in {FinishOne(storage, Head(running.remove_queue), running.type)} :
        /\ storage' = r.st
        /\ events' = ApplyEventCalls(events, SubSeq(r.calls, 1, Len(r.calls) - 1))
        /\ fs_memory' = ApplyFsCalls(fs_memory, r.calls)
  /\ running' = [running EXCEPT !.pc = "notify"]
  /\ last' = [op |-> "finish", addr |-> Head(running.remove_queue), res |-> SC_RESULT_OK]
  /\ UNCHANGED <<steps, hung, scenario, iterator>>

\* The end of a round (sc_storage.c:682).
EraseNotify ==
  /\ ~hung
  /\ Erasing
  /\ running.pc = "notify"
  /\ events' = ApplyEventCalls(events, <<DeletedCall(Head(running.remove_queue))>>)
  /\ running' = [running EXCEPT !.pc = "mark", !.remove_queue = Tail(@)]
  /\ last' = [op |-> "notify", addr |-> Head(running.remove_queue), res |-> SC_RESULT_OK]
  /\ UNCHANGED <<storage, steps, hung, scenario, fs_memory, iterator>>

\* The return of the erasing call (sc_storage.c:685-689).
EraseReturn ==
  /\ ~hung
  /\ Erasing
  /\ running.pc = "mark"
  /\ running.remove_queue = <<>>
  /\ running' = NotRunning
  /\ last' = [op |-> "element_free", addr |-> running.root, res |-> SC_RESULT_OK]
  /\ UNCHANGED <<storage, steps, hung, scenario, events, fs_memory, iterator>>

NextErase ==
  \/ \E thread \in Threads, type \in NodeTypes : EraseNodeNew(thread, type)
  \/ \E thread \in Threads, type \in EraseConnectorTypes, b \in LiveSlots, e \in LiveSlots :
       EraseArcNew(thread, type, b, e)
  \/ \E el \in LiveSlots, type \in EraseEventTypes : EraseEventNew(el, type)
  \/ \E addr \in LiveSlots : EraseOther(addr)
  \/ \E addr \in LiveSlots : EraseCollect(addr)
  \/ EraseMark
  \/ EraseFinish
  \/ EraseNotify
  \/ EraseReturn

SpecErase == Init /\ [][NextErase]_vars

\* C38: while a thread is erasing, every element another thread created
\* after the collection, and did not erase itself, is live and not requested
\* for deletion.
C38_FreshStaysLive ==
  Erasing =>
    \A a \in running.fresh :
      /\ Resolves(storage, a)
      /\ BitAnd(Elem(storage, a).access_levels, SC_ACCESS_LVL_REQUEST_DELETION) = 0

\* A subscription the other thread registered on an element it created after
\* the collection is still on the list of its element while the element is
\* live.
FreshSubscriptionsKept ==
  \A h \in running.fresh_events :
    (events.objects[h].element \in running.fresh
       /\ Resolves(storage, events.objects[h].element))
      => \E i \in DOMAIN sc_hash_table_get(events.events_table,
                                           TABLE_KEY(events.objects[h].element)) :
           sc_hash_table_get(events.events_table,
                             TABLE_KEY(events.objects[h].element))[i] = h

\* A step queues no dispatch record for a subscription that was registered
\* on the element that had the address of a new element before.
NoRecordForEarlier ==
  \A i \in DOMAIN events'.emission_queue \ DOMAIN events.emission_queue :
    ~ /\ events.objects[events'.emission_queue[i].event].element \in running.fresh
      /\ events'.emission_queue[i].event \notin running.fresh_events

\* C39: while a thread is erasing, a subscription registered on a new element
\* is not retired by the erase of the element that had its address before,
\* and a subscription on the erased element gets no record of an event of
\* the new element.
C39_LifetimesApart ==
  /\ [](Erasing => FreshSubscriptionsKept)
  /\ [][Erasing => NoRecordForEarlier]_vars

\* Every handle on the queue of deletable events is marked destroy-requested.
DeletableMarked ==
  \A i \in DOMAIN events.deletable_events :
    events.objects[events.deletable_events[i]].ref_count = SC_EVENT_REQUEST_DESTROY

\* No handle is on the queue of deletable events twice.
DeletableOnce ==
  \A i, j \in DOMAIN events.deletable_events :
    events.deletable_events[i] = events.deletable_events[j] => i = j

\* A step queues no dispatch record for a handle that is on the queue of
\* deletable events.
NoRecordForDeletable ==
  \A i \in DOMAIN events'.emission_queue \ DOMAIN events.emission_queue :
    \A j \in DOMAIN events.deletable_events :
      events'.emission_queue[i].event # events.deletable_events[j]

\* C35: a handle is pushed on the queue of deletable events at most once,
\* every handle on that queue is marked destroy-requested, and no dispatch
\* record is queued for a handle after it was put on that queue.
C35_Forward ==
  /\ [](DeletableMarked /\ DeletableOnce)
  /\ [][NoRecordForDeletable]_vars

\* The slots on the free list of a segment: the chain from
\* last_released_offset through the type fields (sc_storage.c:182-184).
RECURSIVE FreeChain(_, _, _)
FreeChain(seg, offset, fuel) ==
  IF offset \notin Offsets \ {0} \/ fuel = 0 THEN {}
  ELSE {offset} \cup FreeChain(seg, seg.elements[offset].type, fuel - 1)

ReleasedSlots(st, num) ==
  FreeChain(st.segments[num], st.segments[num].last_released_offset,
            SC_SEGMENT_ELEMENTS_COUNT)

\* The slots of the segments the storage holds.
HeldSlots(st) == {a \in SlotAddrs(GraphSegments) : st.segments[a.seg].num # 0}

Exists(st, a) ==
  BitAnd(Elem(st, a).access_levels, SC_ACCESS_LVL_ELEMENT_EXIST) # 0

Requested(st, a) ==
  BitAnd(Elem(st, a).access_levels, SC_ACCESS_LVL_REQUEST_DELETION) # 0

\* A slot with ELEMENT_EXIST is an engaged slot that is not on the free list
\* of its segment.
ExistIsLive ==
  \A a \in HeldSlots(storage) :
    Exists(storage, a) =>
      /\ a.offset <= storage.segments[a.seg].last_engaged_offset
      /\ a.offset \notin ReleasedSlots(storage, a.seg)

\* ELEMENT_EXIST becomes set only by the creation that returns the address,
\* and becomes clear only by the slot going on the free list.
ExistByLifetime ==
  \A a \in HeldSlots(storage) \cap HeldSlots(storage') :
    /\ (~Exists(storage, a) /\ Exists(storage', a))
         => (last'.op \in {"node_new", "arc_new"} /\ last'.addr = a)
    /\ (Exists(storage, a) /\ ~Exists(storage', a))
         => a.offset \in ReleasedSlots(storage', a.seg)

\* REQUEST_DELETION of a live slot stays set until the slot is freed, and
\* becomes set only by the marking step of an erase.
RequestForward ==
  \A a \in HeldSlots(storage) \cap HeldSlots(storage') :
    /\ (Exists(storage, a) /\ Requested(storage, a))
         => (Requested(storage', a) \/ ~Exists(storage', a))
    /\ (~Requested(storage, a) /\ Requested(storage', a))
         => (Exists(storage', a) /\ last'.op = "mark" /\ last'.addr = a)

MaxLockOps == 4

MonitorTableSize == 2

LockThreads == {1, 2}

NullMonitor == [kind |-> "null", n |-> 0]
segments_monitor == [kind |-> "segments", n |-> 0]
events_table_monitor == [kind |-> "events_table", n |-> 0]
SegmentMonitor(num) == [kind |-> "segment", n |-> num]

\* sc_monitor_get_monitor_for_addr
sc_monitor_get_monitor_for_addr(addr) ==
  IF SC_ADDR_IS_EMPTY(addr) THEN NullMonitor
  ELSE [kind |-> "addr", n |-> SC_ADDR_LOCAL_TO_INT(addr) % MonitorTableSize]

\* The level of a monitor in the lock order; 0 for a monitor the order does
\* not name.
MonitorLevel(monitor) ==
  CASE monitor.kind = "processes" -> 1
    [] monitor.kind = "segments" -> 2
    [] monitor.kind = "addr" -> 3
    [] monitor.kind = "segment" -> 4
    [] monitor.kind = "events_table" -> 5
    [] monitor.kind = "emission" -> 6
    [] OTHER -> 0

Acquire(monitor, mode) ==
  [op |-> "acquire", monitor |-> monitor, mode |-> mode, addr |-> SC_ADDR_EMPTY]
Release(monitor) ==
  [op |-> "release", monitor |-> monitor, mode |-> "", addr |-> SC_ADDR_EMPTY]
\* A read or a write of the fields of the element at addr.
Access(addr, mode) ==
  [op |-> "access", monitor |-> sc_monitor_get_monitor_for_addr(addr), mode |-> mode,
   addr |-> addr]
\* The statements named effect.
Do(effect) ==
  [op |-> effect, monitor |-> NullMonitor, mode |-> "", addr |-> SC_ADDR_EMPTY]

\* sc_monitor_acquire_write_n / sc_monitor_release_write_n over the monitors
\* of addrs.
RECURSIVE InTableOrder(_)
InTableOrder(monitors) ==
  IF monitors = {} THEN <<>>
  ELSE LET first == CHOOSE m \in monitors : \A o \in monitors : m.n <= o.n
       IN <<first>> \o InTableOrder(monitors \ {first})

MonitorsOf(addrs) == {sc_monitor_get_monitor_for_addr(a) : a \in addrs} \ {NullMonitor}

sc_monitor_acquire_write_n(addrs) ==
  [i \in 1..Cardinality(MonitorsOf(addrs)) |->
     Acquire(InTableOrder(MonitorsOf(addrs))[i], "write")]

sc_monitor_release_write_n(addrs) ==
  [i \in 1..Cardinality(MonitorsOf(addrs)) |-> Release(InTableOrder(MonitorsOf(addrs))[i])]

\* sc_event_emit with an events table: the table is looked up under its
\* monitor (sc_event.c:293-296).
EmitProgram == <<Acquire(events_table_monitor, "read"), Release(events_table_monitor)>>

\* The writes to the elements of addrs that resolve.
WritesTo(st, addrs) ==
  LET live == SelectSeq(addrs, LAMBDA a : SC_ADDR_IS_NOT_EMPTY(a) /\ Resolves(st, a))
  IN [i \in 1..Len(live) |-> Access(live[i], "write")]

\* A thread inside no call.
IdleThread ==
  [call |-> "idle", addr |-> SC_ADDR_EMPTY, beg_addr |-> SC_ADDR_EMPTY,
   end_addr |-> SC_ADDR_EMPTY, type |-> 0, remove_queue |-> <<>>, program |-> <<>>,
   held |-> <<>>]

\* The head of a removal round (sc_storage.c:536-554) for the first address
\* of remove_queue, or the return of the call.
NextRound(th, remove_queue) ==
  IF remove_queue = <<>> THEN IdleThread
  ELSE [th EXCEPT
          !.remove_queue = remove_queue,
          !.addr = Head(remove_queue),
          !.program =
             <<Acquire(sc_monitor_get_monitor_for_addr(Head(remove_queue)), "write"),
               Access(Head(remove_queue), "write"),
               Do("mark")>>]

\* sc_storage_free_element(addr) up to the write of the slot
\* (sc_storage.c:172-183).
FreeProgram(addr) ==
  <<Acquire(segments_monitor, "read"), Release(segments_monitor),
    Acquire(SegmentMonitor(addr.seg), "write"), Access(addr, "write"), Do("free")>>

\* The end of a removal round (sc_storage.c:675-682).
RoundEnd(addr) ==
  EmitProgram
    \o <<Acquire(sc_monitor_get_monitor_for_addr(addr), "write")>>
    \o FreeProgram(addr)
    \o <<Release(sc_monitor_get_monitor_for_addr(addr))>>
    \o EmitProgram
    \o <<Do("round")>>

\* The neighbours in the lists whose monitors the unlinking takes
\* (sc_storage.c:574-596).
Neighbours(el) ==
  {a \in {el.prev_out_arc, el.next_out_arc, el.prev_in_arc, el.next_in_arc} :
     a # el.begin /\ a # el.end}

\* The first connectors whose monitors the linking takes
\* (sc_storage.c:724-735).
FirstArcs(st, beg_addr, end_addr) ==
  {a \in {Elem(st, beg_addr).first_out_arc, Elem(st, end_addr).first_in_arc} :
     a # beg_addr /\ a # end_addr}

\* What the statements named by the first instruction of the program of th
\* do: the storage they leave and the thread after them.
Effect(st, thread, th) ==
  LET addr == th.addr
      el == Elem(st, addr)
      rest == Tail(th.program)
      Then(s2, program) == [st |-> s2, th |-> [th EXCEPT !.program = program]]
      op == Head(th.program).op
  IN CASE op = "collect" ->
            [st |-> st,
             th |-> IF Resolves(st, addr)
                    THEN NextRound(th, Collect(st, addr).remove_queue)
                    ELSE IdleThread]
       [] op = "mark" ->
            IF ~MarkOne(st, addr).marked
            THEN Then(st, <<Release(sc_monitor_get_monitor_for_addr(addr)), Do("round")>>)
            ELSE [st |-> MarkOne(st, addr).st,
                  th |-> [th EXCEPT
                            !.type = MarkOne(st, addr).type,
                            !.program =
                               <<Release(sc_monitor_get_monitor_for_addr(addr))>>
                                 \o IF BitAnd(MarkOne(st, addr).type, sc_type_arc_mask) # 0
                                    THEN <<Do("endpoints")>>
                                    ELSE RoundEnd(addr)]]
       [] op = "endpoints" ->
            Then(st, sc_monitor_acquire_write_n({el.begin, el.end}) \o <<Do("neighbours")>>)
       [] op = "neighbours" ->
            Then(st, sc_monitor_acquire_write_n(Neighbours(el))
                       \o WritesTo(st, <<el.prev_out_arc, el.next_out_arc, el.begin,
                                         el.prev_in_arc, el.next_in_arc, el.end>>)
                       \o <<Do("unlink")>>
                       \o EmitProgram \o EmitProgram
                       \o sc_monitor_release_write_n(Neighbours(el))
                       \o sc_monitor_release_write_n({el.begin, el.end})
                       \o RoundEnd(addr))
       [] op = "unlink" -> Then(UnlinkConnector(st, addr), rest)
       [] op = "free" ->
            Then(sc_storage_free_element(st, addr).st,
                 <<Release(SegmentMonitor(addr.seg))>>
                   \o (IF st.segments[addr.seg].last_released_offset = 0
                       THEN <<Acquire(segments_monitor, "write"), Release(segments_monitor)>>
                       ELSE <<>>)
                   \o rest)
       [] op = "round" ->
            [st |-> st, th |-> NextRound(th, Tail(th.remove_queue))]
       [] op = "allocate" ->
            IF sc_storage_allocate_new_element(st, thread).element
            THEN [st |-> sc_storage_allocate_new_element(st, thread).st,
                  th |-> [th EXCEPT
                            !.addr = sc_storage_allocate_new_element(st, thread).addr,
                            !.program =
                               <<Access(sc_storage_allocate_new_element(st, thread).addr,
                                        "write"),
                                 Do("fill")>>
                                 \o sc_monitor_acquire_write_n({th.beg_addr, th.end_addr})
                                 \o <<Do("resolve")>>]]
            ELSE [st |-> st, th |-> IdleThread]
       [] op = "fill" ->
            Then(SetField(SetField(SetField(st, addr, "type", th.type),
                                   addr, "begin", th.beg_addr),
                          addr, "end", th.end_addr),
                 rest)
       [] op = "resolve" ->
            IF ~Resolves(st, th.beg_addr) \/ ~Resolves(st, th.end_addr)
            THEN Then(st, FreeProgram(addr)
                            \o sc_monitor_release_write_n({th.beg_addr, th.end_addr})
                            \o <<Do("return")>>)
            ELSE Then(st, sc_monitor_acquire_write_n(FirstArcs(st, th.beg_addr, th.end_addr))
                            \o <<Access(addr, "write")>>
                            \o WritesTo(st, <<Elem(st, th.beg_addr).first_out_arc,
                                              Elem(st, th.end_addr).first_in_arc>>)
                            \o sc_monitor_release_write_n(
                                 FirstArcs(st, th.beg_addr, th.end_addr))
                            \o <<Access(th.beg_addr, "write"), Access(th.end_addr, "write"),
                                 Do("link")>>
                            \o EmitProgram \o EmitProgram
                            \o sc_monitor_release_write_n({th.beg_addr, th.end_addr})
                            \o <<Do("return")>>)
       [] op = "link" ->
            Then(sc_storage_make_elements_incident_to_arc(st, addr, th.beg_addr, th.end_addr),
                 rest)
       [] op = "subtype" ->
            Then(sc_storage_change_element_subtype(st, addr, th.type).st, rest)
       [] OTHER -> [st |-> st, th |-> IdleThread]

\* The calls: the program each starts with.
Queries ==
  {"get_arc_begin", "get_arc_end", "get_arc_info", "get_element_output_arcs_count",
   "get_element_input_arcs_count", "get_link_content"}

LockCalls ==
  {[call |-> "element_free", addr |-> a, beg_addr |-> SC_ADDR_EMPTY,
    end_addr |-> SC_ADDR_EMPTY, type |-> 0] : a \in LiveSlots}
  \cup {[call |-> "arc_new", addr |-> SC_ADDR_EMPTY, beg_addr |-> b, end_addr |-> e,
         type |-> sc_type_arc_pos_const_perm] : b \in LiveSlots, e \in LiveSlots}
  \cup {[call |-> q, addr |-> a, beg_addr |-> SC_ADDR_EMPTY, end_addr |-> SC_ADDR_EMPTY,
         type |-> 0] : q \in Queries \cup {"get_element_type", "set_link_content"},
                       a \in LiveSlots}
  \cup {[call |-> "change_element_subtype", addr |-> a, beg_addr |-> SC_ADDR_EMPTY,
         end_addr |-> SC_ADDR_EMPTY, type |-> BitOr(sc_type_node, sc_type_var)] :
          a \in LiveSlots}

Locked(addr, mode, body) ==
  <<Acquire(sc_monitor_get_monitor_for_addr(addr), mode)>> \o body
    \o <<Release(sc_monitor_get_monitor_for_addr(addr)), Do("return")>>

CallProgram(c) ==
  CASE c.call = "element_free" -> <<Do("collect")>>
    [] c.call = "arc_new" -> <<Do("allocate")>>
    [] c.call = "get_element_type" -> <<Access(c.addr, "read"), Do("return")>>
    [] c.call \in Queries -> Locked(c.addr, "read", <<Access(c.addr, "read")>>)
    [] c.call = "set_link_content" ->
         Locked(c.addr, "write", <<Access(c.addr, "read")>> \o EmitProgram)
    [] c.call = "change_element_subtype" ->
         Locked(c.addr, "write", <<Access(c.addr, "write"), Do("subtype")>>)

Locking == running.spec = "locks"

AllIdle == \A t \in LockThreads : running.thread[t].call = "idle"

HeldBy(t) == {running.thread[t].held[i].monitor : i \in DOMAIN running.thread[t].held}

WriteHeldBy(t) ==
  {running.thread[t].held[i].monitor :
     i \in {j \in DOMAIN running.thread[t].held : running.thread[t].held[j].mode = "write"}}

NextOp(t) ==
  IF running.thread[t].program = <<>> THEN Do("none") ELSE Head(running.thread[t].program)

InitLocks ==
  /\ storage = [InitStorage(GraphSegments) EXCEPT
                  !.processes_segments_table = [t \in LockThreads |-> 0]]
  /\ last = [op |-> "init", addr |-> SC_ADDR_EMPTY, res |-> SC_RESULT_OK]
  /\ steps = 0
  /\ hung = FALSE
  /\ scenario = NoScenario
  /\ events = NoEvents
  /\ fs_memory = <<>>
  /\ iterator = NullIterator
  /\ running = [spec |-> "locks", thread |-> [t \in LockThreads |-> IdleThread]]

\* A thread enters a call.
LockBegin(t, c) ==
  /\ Budget(MaxLockOps)
  /\ running.thread[t].call = "idle"
  /\ running' = [running EXCEPT
                   !.thread[t] = [IdleThread EXCEPT
                                    !.call = c.call, !.addr = c.addr,
                                    !.beg_addr = c.beg_addr, !.end_addr = c.end_addr,
                                    !.type = c.type, !.program = CallProgram(c)]]
  /\ last' = [op |-> "call", addr |-> SC_ADDR_EMPTY, res |-> SC_RESULT_OK]
  /\ steps' = Spend(MaxLockOps)
  /\ UNCHANGED <<storage, hung, scenario, events, fs_memory, iterator>>

\* sc_monitor_acquire_read / sc_monitor_acquire_write: the thread goes on
\* when no thread holds the monitor for writing and, for a write, none holds
\* it at all.
LockAcquire(t) ==
  /\ NextOp(t).op = "acquire"
  /\ \A u \in LockThreads :
       /\ NextOp(t).monitor \notin WriteHeldBy(u)
       /\ NextOp(t).mode = "write" => NextOp(t).monitor \notin HeldBy(u)
  /\ running' = [running EXCEPT
                   !.thread[t].held =
                      Append(@, [monitor |-> NextOp(t).monitor, mode |-> NextOp(t).mode]),
                   !.thread[t].program = Tail(@)]
  /\ UNCHANGED <<storage, last, steps, hung, scenario, events, fs_memory, iterator>>

\* sc_monitor_release_read / sc_monitor_release_write
LockRelease(t) ==
  /\ NextOp(t).op = "release"
  /\ running' = [running EXCEPT
                   !.thread[t].held =
                      SelectSeq(@, LAMBDA h : h.monitor # NextOp(t).monitor),
                   !.thread[t].program = Tail(@)]
  /\ UNCHANGED <<storage, last, steps, hung, scenario, events, fs_memory, iterator>>

\* A read or a write of the fields of an element.
LockAccess(t) ==
  /\ NextOp(t).op = "access"
  /\ running' = [running EXCEPT !.thread[t].program = Tail(@)]
  /\ UNCHANGED <<storage, last, steps, hung, scenario, events, fs_memory, iterator>>

\* The statements between two monitor operations.
LockDo(t) ==
  /\ NextOp(t).op \notin {"acquire", "release", "access", "none"}
  /\ \E r \in {Effect(storage, t, running.thread[t])} :
        /\ storage' = r.st
        /\ running' = [running EXCEPT !.thread[t] = [r.th EXCEPT !.held = running.thread[t].held]]
  /\ UNCHANGED <<last, steps, hung, scenario, events, fs_memory, iterator>>

NextLocks ==
  \/ \E thread \in {1}, type \in NodeTypes : AllIdle /\ NodeNew(thread, type, MaxLockOps)
  \/ \E thread \in {1}, b \in LiveSlots, e \in LiveSlots :
       AllIdle /\ ArcNew(thread, sc_type_arc_pos_const_perm, b, e, MaxLockOps)
  \/ \E t \in LockThreads, c \in LockCalls : LockBegin(t, c)
  \/ \E t \in LockThreads : LockAcquire(t)
  \/ \E t \in LockThreads : LockRelease(t)
  \/ \E t \in LockThreads : LockAccess(t)
  \/ \E t \in LockThreads : LockDo(t)

SpecLocks == InitLocks /\ [][NextLocks]_vars

\* C32: no thread waits for a monitor it holds itself, and no two threads
\* wait for a monitor of each other.
C32_NoDeadlock ==
  Locking =>
    /\ \A t \in LockThreads :
         NextOp(t).op = "acquire" => NextOp(t).monitor \notin HeldBy(t)
    /\ \A t, u \in LockThreads :
         ~ /\ t # u
           /\ NextOp(t).op = "acquire" /\ NextOp(t).monitor \in HeldBy(u)
           /\ NextOp(u).op = "acquire" /\ NextOp(u).monitor \in HeldBy(t)

\* C33: a thread that is about to acquire a monitor holds no monitor of a
\* higher level.
C33_LevelOrder ==
  Locking =>
    \A t \in LockThreads :
      NextOp(t).op = "acquire" =>
        \A h \in HeldBy(t) :
          (MonitorLevel(h) # 0 /\ MonitorLevel(NextOp(t).monitor) # 0)
            => MonitorLevel(h) <= MonitorLevel(NextOp(t).monitor)

\* C34: a thread that is about to read the fields of an element in a query
\* holds the monitor of the element, and a thread that is about to write the
\* fields of an element holds the monitor of the element for writing.
C34_AccessLocked ==
  Locking =>
    \A t \in LockThreads :
      NextOp(t).op = "access" =>
        IF NextOp(t).mode = "write"
        THEN NextOp(t).monitor \in WriteHeldBy(t)
        ELSE NextOp(t).monitor \in HeldBy(t)

=============================================================================
